---- MODULE Spec2Model ----
(***************************************************************************)
(* Workflow-graph execution of the knowledge service: the ingestion        *)
(* pipeline (workflows/knowledge_workflow.py) and the reasoning pipeline   *)
(* (workflows/reasoning_workflow.py), the heuristics they call             *)
(* (agents/*.py) and the two stores they write to (storage/*.py).          *)
(*                                                                         *)
(* Conventions                                                             *)
(*   - a Python str is a sequence of one-character strings;                *)
(*   - an Optional value / a dict key that may be missing is a sequence:   *)
(*     <<>> is None / missing, <<v>> is the value v;                       *)
(*   - a float confidence c is the integer 10*c (tenths);                  *)
(*   - f"{workflow_id}_chunk_{i}" is the tuple <<workflow_id, i>>, and     *)
(*     f"ingest_{t}" / f"reason_{t}" is the tuple <<"ingest", t>>.         *)
(***************************************************************************)
EXTENDS Integers, Sequences, FiniteSets, TLC

\* ------------------------------------------------------------------ bounds
\* longest content, in words, that the single-run ingestion specification enumerates
MaxWords == 5
\* most chunks the (opaque) text splitter returns for one content
MaxChunks == 2
\* run slots (background tasks) of the concurrent specification
MaxRuns == 2
\* last value of the event-loop clock
MaxClock == 1
\* most hits the (opaque) stores return to one search in the single-run specifications
MaxHits == 2

\* ------------------------------------------------------------ Python str
Whitespace == {" ", "\n", "\t"}

IsSpace(c) == c \in Whitespace

UpperLetters == <<"A", "B", "C", "D", "E", "F", "G", "H", "I", "J", "K", "L", "M", "N", "O", "P", "Q", "R", "S", "T", "U", "V", "W", "X", "Y", "Z">>
LowerLetters == <<"a", "b", "c", "d", "e", "f", "g", "h", "i", "j", "k", "l", "m", "n", "o", "p", "q", "r", "s", "t", "u", "v", "w", "x", "y", "z">>

\* str.lower(), character by character
LowerChar(c) ==
    IF \E i \in 1..Len(UpperLetters) : UpperLetters[i] = c
    THEN LowerLetters[CHOOSE i \in 1..Len(UpperLetters) : UpperLetters[i] = c]
    ELSE c

Lower(s) == [i \in 1..Len(s) |-> LowerChar(s[i])]

RECURSIVE LStrip(_)
LStrip(s) ==
    IF s = <<>> THEN s
    ELSE IF IsSpace(Head(s)) THEN LStrip(Tail(s)) ELSE s

RECURSIVE RStrip(_)
RStrip(s) ==
    IF s = <<>> THEN s
    ELSE IF IsSpace(s[Len(s)]) THEN RStrip(SubSeq(s, 1, Len(s) - 1)) ELSE s

\* str.strip()
Strip(s) == RStrip(LStrip(s))

\* str.split(): the maximal runs of non-whitespace characters, in order; the
\* k-th word runs from the k-th position that starts a run to the k-th
\* position that ends one
Split(s) ==
    LET Starts == {i \in 1..Len(s) : ~IsSpace(s[i]) /\ (i = 1 \/ IsSpace(s[i - 1]))}
        Ends == {j \in 1..Len(s) : ~IsSpace(s[j]) /\ (j = Len(s) \/ IsSpace(s[j + 1]))}
        Nth(positions, k) ==
            CHOOSE x \in positions : Cardinality({y \in positions : y < x}) = k - 1
    IN  [k \in 1..Cardinality(Starts) |-> SubSeq(s, Nth(Starts, k), Nth(Ends, k))]

SeqToSet(seq) == {seq[i] : i \in 1..Len(seq)}

\* set(text.lower().split())
Terms(text) == SeqToSet(Split(Lower(text)))

\* str.count(ch) for a one-character ch
Count(s, ch) == Cardinality({i \in 1..Len(s) : s[i] = ch})

\* `sub in s` for two str
Contains(s, sub) ==
    \E i \in 0..(Len(s) - Len(sub)) :
        \A j \in 1..Len(sub) : s[i + j] = sub[j]

RECURSIVE Concat(_)
Concat(parts) == IF parts = <<>> THEN <<>> ELSE Head(parts) \o Concat(Tail(parts))

RECURSIVE Join(_, _)
Join(words, sep) ==
    IF words = <<>> THEN <<>>
    ELSE IF Len(words) = 1 THEN words[1]
    ELSE words[1] \o sep \o Join(Tail(words), sep)

Max(a, b) == IF a >= b THEN a ELSE b
Min(a, b) == IF a <= b THEN a ELSE b

\* ------------------------------------------------- IngestionAgent.validate
\* the two checks with the length taken before strip()
IssuesOfUntrimmed(content) ==
    (IF Len(content) < 10 THEN <<"Content too short">> ELSE <<>>)
    \o (IF Len(Split(content)) < 5 THEN <<"Content has too few words">> ELSE <<>>)

\* len(issues) after the two checks of validate_content
IssuesOf(content) ==
    (IF Len(Strip(content)) < 10 THEN <<"Content too short">> ELSE <<>>)
    \o (IF Len(Split(content)) < 5 THEN <<"Content has too few words">> ELSE <<>>)

SuggestionsOf(content) ==
    (IF Len(Strip(content)) < 10 THEN <<"Provide more detailed content">> ELSE <<>>)
    \o (IF Len(Split(content)) < 5
        THEN <<"Expand on the topic with more information">> ELSE <<>>)
    \o (IF Count(content, "?") > Count(content, ".")
        THEN <<"Content appears to be mostly questions">> ELSE <<>>)

\* a validate_content that counts the suggestions instead of the issues
validate_content_by_suggestions(content) ==
    [ is_valid    |-> Len(SuggestionsOf(content)) = 0,
      confidence  |-> Max(1, 10 - Len(SuggestionsOf(content)) * 2),
      issues      |-> IssuesOf(content),
      suggestions |-> SuggestionsOf(content) ]

\* a validate_content that takes half of the confidence away per issue, so
\* that two issues meet the floor
validate_content_steep(content) ==
    [ is_valid    |-> Len(IssuesOf(content)) = 0,
      confidence  |-> Max(1, 10 - Len(IssuesOf(content)) * 5),
      issues      |-> IssuesOf(content),
      suggestions |-> SuggestionsOf(content) ]

\* IngestionAgent.validate_content; confidence in tenths: 1.0 - 0.2 * issues,
\* floored at 0.1
validate_content(content) ==
    [ is_valid    |-> Len(IssuesOf(content)) = 0,
      confidence  |-> Max(1, 10 - Len(IssuesOf(content)) * 2),
      issues      |-> IssuesOf(content),
      suggestions |-> SuggestionsOf(content) ]

\* ---------------------------------------------------------------- inputs
\* words the enumerated contents are made of: 1, 3 and 6 characters, with a
\* question mark or a full stop
Vocabulary == { <<"a">>, <<"a", "b", "?">>, <<"a", "b", "c", "d", "e", ".">> }

WordLists == UNION { [1..n -> Vocabulary] : n \in 0..MaxWords }

LeadPads == { <<>>, <<" ">> }
TrailPads == { <<>>, <<"\n">> }

\* every content the single-run ingestion specification submits
Contents ==
    { lead \o Join(ws, <<" ">>) \o trail :
        lead \in LeadPads, trail \in TrailPads, ws \in WordLists }

\* contents submitted in the concurrent specification: a valid one, one that
\* is too short although it has five words, and one with too few words
SpecContents ==
    { <<"a", " ", "a", " ", "a", " ", "a", " ", "a", "b", "c", "d", "e", ".">>,
      <<"a", " ", "a", " ", "a", " ", "a", " ", "a">>,
      <<"a", "b", "c", "d", "e", ".", " ", "a", "b", "c", "d", "e", ".">> }

RunIds == 1..MaxRuns

VARIABLES
    clock,          \* asyncio event-loop time, read by the request handlers
    schema_only,    \* TRUE: the compiled graph keeps only the keys the state
                    \*       schema declares; FALSE: it hands a step's whole
                    \*       output to the next step
    runs,           \* run slot -> the background task and its envelopes
    vector_store,   \* the embeddings collection: set of <<node id, payload>>
    graph_store     \* the graph database: sequence of created node ids

vars == <<clock, schema_only, runs, vector_store, graph_store>>

\* ------------------------------------------------------- state envelopes
\* models/state.py: the keys WorkflowState and KnowledgeIngestionState declare
IngestionDeclared ==
    { "workflow_id", "status", "current_step", "start_time", "end_time", "error",
      "content", "source", "metadata", "nodes_created", "edges_created",
      "embedding_generated", "graph_updated" }

\* keys the ingestion steps write although the schema does not declare them
IngestionUndeclared ==
    { "validation_result", "embeddings_data", "alignment_result",
      "contradiction_result", "embeddings_stored" }

\* KnowledgeWorkflow.run: initial_state
IngestionInitialState(workflow_id, content, metadata, source, now) ==
    [ workflow_id         |-> workflow_id,
      status              |-> "running",
      current_step        |-> "initialized",
      start_time          |-> now,
      end_time            |-> <<>>,
      error               |-> <<>>,
      content             |-> content,
      source              |-> source,
      metadata            |-> metadata,
      nodes_created       |-> <<>>,
      edges_created       |-> <<>>,
      embedding_generated |-> FALSE,
      graph_updated       |-> FALSE,
      validation_result    |-> <<>>,
      embeddings_data      |-> <<>>,
      alignment_result     |-> <<>>,
      contradiction_result |-> <<>>,
      embeddings_stored    |-> <<>> ]

\* the state the compiled ingestion graph holds after a step returned `out`:
\* StateGraph(KnowledgeIngestionState) has one channel per declared key
IngestionChannels(out) ==
    IF schema_only
    THEN [out EXCEPT !.validation_result = <<>>,
                     !.embeddings_data = <<>>,
                     !.alignment_result = <<>>,
                     !.contradiction_result = <<>>,
                     !.embeddings_stored = <<>>]
    ELSE out

\* run()'s except branch without the error assignment
MarkFailedNoError(initial_state, description, now) ==
    [initial_state EXCEPT !.status = "failed",
                          !.end_time = <<now>>]

\* run()'s except branch without the end_time assignment
MarkFailedNoEndTime(initial_state, description, now) ==
    [initial_state EXCEPT !.status = "failed",
                          !.error = <<description>>]

\* run(): the except branch, acting on the initial_state dict
MarkFailed(initial_state, description, now) ==
    [initial_state EXCEPT !.status = "failed",
                          !.error = <<description>>,
                          !.end_time = <<now>>]

\* -------------------------------------------------- ingestion: the agents
\* RecursiveCharacterTextSplitter.split_text, an opaque collaborator: k ordered
\* pieces of the content, piece i holding the words
\* floor((i-1)n/k)+1 .. floor(i*n/k) of its n words
split_text(content, k) ==
    LET w == Split(content)
        n == Len(w)
    IN  [i \in 1..k |->
            Join(SubSeq(w, ((i - 1) * n) \div k + 1, (i * n) \div k), <<" ">>)]

\* SentenceTransformer.encode(text).tolist(), an opaque collaborator
Encode(text) == <<Len(text), Count(text, "a")>>

\* a process_content that numbers the chunks from 1 and drops the last one
process_content_off_by_one(state, chunks, now) ==
    LET NodeId(i) == <<state.workflow_id, i>>
        Node(i) ==
            [ id         |-> NodeId(i),
              content    |-> chunks[i],
              embedding  |-> <<Encode(chunks[i])>>,
              metadata   |-> [ caller         |-> state.metadata,
                               source         |-> state.source,
                               chunk_index    |-> i,
                               total_chunks   |-> Len(chunks),
                               content_length |-> Len(chunks[i]) ],
              confidence |-> 8,
              created_at |-> now,
              updated_at |-> now ]
    IN  [ nodes      |-> [i \in 1..(Len(chunks) - 1) |-> NodeId(i)],
          embeddings |-> [i \in 1..(Len(chunks) - 1) |->
                             <<NodeId(i), Encode(chunks[i]), Node(i)>>] ]

\* IngestionAgent.process_content: one node per chunk, ids numbered from 0
process_content(state, chunks, now) ==
    LET NodeId(i) == <<state.workflow_id, i - 1>>
        Node(i) ==
            [ id         |-> NodeId(i),
              content    |-> chunks[i],
              embedding  |-> <<Encode(chunks[i])>>,
              metadata   |-> [ caller         |-> state.metadata,
                               source         |-> state.source,
                               chunk_index    |-> i - 1,
                               total_chunks   |-> Len(chunks),
                               content_length |-> Len(chunks[i]) ],
              confidence |-> 8,
              created_at |-> now,
              updated_at |-> now ]
    IN  [ nodes      |-> [i \in 1..Len(chunks) |-> NodeId(i)],
          embeddings |-> [i \in 1..Len(chunks) |->
                             <<NodeId(i), Encode(chunks[i]), Node(i)>>] ]

\* AlignmentAgent._calculate_similarity: len(intersection) / len(union) of the
\* lowercased word sets as the fraction num / den, 0.0 (0 / 1) on an empty union
_calculate_similarity(node1, node2) ==
    LET words1 == Terms(node1.content)
        words2 == Terms(node2.content)
    IN  IF words1 \cup words2 # {}
        THEN [ num |-> Cardinality(words1 \cap words2),
               den |-> Cardinality(words1 \cup words2) ]
        ELSE [ num |-> 0, den |-> 1 ]

\* AlignmentAgent._calculate_similarity > 0.7, on the word sets of two contents
SimilarAbove07(content1, content2) ==
    LET words1 == {w : w \in {Split(Lower(content1))[i] : i \in 1..Len(Split(content1))}}
        words2 == {w : w \in {Split(Lower(content2))[i] : i \in 1..Len(Split(content2))}}
        inter == words1 \cap words2
        union == words1 \cup words2
    IN  union # {} /\ 10 * Cardinality(inter) > 7 * Cardinality(union)

\* the pairs a loop over `nodes` with an inner loop over `others` visits, in
\* the order it visits them
Pairs(nodes, others) ==
    [k \in 1..(Len(nodes) * Len(others)) |->
        << nodes[((k - 1) \div Len(others)) + 1],
           others[((k - 1) % Len(others)) + 1] >>]

\* an analyze_alignment that proposes a relationship at similarity 0.7 and more
analyze_alignment_inclusive(nodes, similar_nodes) ==
    LET Similar(p) ==
            10 * _calculate_similarity(p[1], p[2]).num >= 7 * _calculate_similarity(p[1], p[2]).den
        aligned == SelectSeq(Pairs(nodes, similar_nodes), Similar)
    IN  [ new_relationships |->
            [i \in 1..Len(aligned) |->
                [ from_id |-> aligned[i][1].id, to_id |-> aligned[i][2].id,
                  type |-> "SIMILAR_TO",
                  properties |-> [ similarity_score |->
                                     _calculate_similarity(aligned[i][1], aligned[i][2]) ],
                  confidence |-> 8 ]] ]

\* AlignmentAgent.analyze_alignment: similar_nodes is
\* existing_graph.get("similar_nodes", [])
analyze_alignment(nodes, similar_nodes) ==
    LET Similar(p) == SimilarAbove07(p[1].content, p[2].content)
        aligned == SelectSeq(Pairs(nodes, similar_nodes), Similar)
    IN  [ new_relationships |->
            [i \in 1..Len(aligned) |->
                [ from_id |-> aligned[i][1].id, to_id |-> aligned[i][2].id,
                  type |-> "SIMILAR_TO",
                  properties |-> [ similarity_score |->
                                     _calculate_similarity(aligned[i][1], aligned[i][2]) ],
                  confidence |-> 8 ]] ]

\* ContradictionAgent._check_contradiction: the fixed (positive, negative) pairs
contradiction_patterns ==
    << << <<"i", "s">>, <<"i", "s", " ", "n", "o", "t">> >>,
       << <<"t", "r", "u", "e">>, <<"f", "a", "l", "s", "e">> >>,
       << <<"y", "e", "s">>, <<"n", "o">> >>,
       << <<"c", "o", "r", "r", "e", "c", "t">>,
          <<"i", "n", "c", "o", "r", "r", "e", "c", "t">> >> >>

\* a _check_contradiction that scans the pair in both directions
_check_contradiction_both_ways(node1, node2) ==
    IF \E p \in 1..Len(contradiction_patterns) :
          \/ /\ Contains(Lower(node1.content), contradiction_patterns[p][1])
             /\ Contains(Lower(node2.content), contradiction_patterns[p][2])
          \/ /\ Contains(Lower(node2.content), contradiction_patterns[p][1])
             /\ Contains(Lower(node1.content), contradiction_patterns[p][2])
    THEN << [ type |-> "direct_contradiction", severity |-> "high" ] >>
    ELSE <<>>

\* ContradictionAgent._check_contradiction: <<>> is None
_check_contradiction(node1, node2) ==
    IF \E p \in 1..Len(contradiction_patterns) :
          /\ Contains(Lower(node1.content), contradiction_patterns[p][1])
          /\ Contains(Lower(node2.content), contradiction_patterns[p][2])
    THEN << [ type |-> "direct_contradiction", severity |-> "high" ] >>
    ELSE <<>>

\* Python's max() over the severity strings compares them as strings
StrMax(a, b) ==
    LET rank(x) == CASE x = "high" -> 1 [] x = "low" -> 2 [] x = "medium" -> 3
    IN  IF rank(a) >= rank(b) THEN a ELSE b

RECURSIVE MaxSeverity(_, _)
MaxSeverity(found, best) ==
    IF found = <<>> THEN best
    ELSE MaxSeverity(Tail(found), StrMax(best, Head(found).severity))

\* a detect_contradictions that reports the default severity whatever it found
detect_contradictions_default_severity(nodes, existing_nodes) ==
    LET Contradicts(p) == _check_contradiction(p[1], p[2]) # <<>>
        found == SelectSeq(Pairs(nodes, existing_nodes), Contradicts)
    IN  [ has_contradiction |-> Len(found) > 0,
          conflicting_nodes |-> [i \in 1..Len(found) |-> found[i][1].id],
          severity          |-> "low" ]

\* ContradictionAgent.detect_contradictions over existing_graph.get("nodes", []);
\* the list of contradictions is built once and the report is made from it
detect_contradictions(nodes, existing_nodes) ==
    LET Contradicts(p) == _check_contradiction(p[1], p[2]) # <<>>
        Entries(found) ==
            [i \in 1..Len(found) |->
                [ node1 |-> found[i][1].id, node2 |-> found[i][2].id,
                  severity |-> _check_contradiction(found[i][1], found[i][2])[1].severity ]]
        Report(contradictions) ==
            [ has_contradiction |-> Len(contradictions) > 0,
              conflicting_nodes |-> [i \in 1..Len(contradictions) |-> contradictions[i].node1],
              severity          |-> IF contradictions = <<>> THEN "low"
                                    ELSE MaxSeverity(Tail(contradictions),
                                                     contradictions[1].severity) ]
    IN  CHOOSE report \in
            { Report(contradictions) :
                contradictions \in
                    { Entries(found) :
                        found \in {SelectSeq(Pairs(nodes, existing_nodes), Contradicts)} } } :
            TRUE

\* --------------------------------------------------- ingestion: the steps
\* a _validate_content that keeps the trimmed content in the envelope
_validate_content_trimming(state) ==
    [state EXCEPT !.current_step = "validation_complete",
                  !.content = Strip(state.content),
                  !.validation_result = <<validate_content(state.content)>>]

_validate_content(state) ==
    [state EXCEPT !.current_step = "validation_complete",
                  !.validation_result = <<validate_content(state.content)>>]

\* state.get("validation_result", {}).get("is_valid", False)
_should_process(state) ==
    IF state.validation_result # <<>> /\ state.validation_result[1].is_valid
    THEN "process" ELSE "reject"

_process_content(state, chunks, now) ==
    [state EXCEPT !.nodes_created = process_content(state, chunks, now).nodes,
                  !.embeddings_data = <<process_content(state, chunks, now).embeddings>>,
                  !.current_step = "content_processed"]

\* existing_graph = {"nodes": [], "relationships": []}: no "similar_nodes" key
_check_alignment(state) ==
    [state EXCEPT !.alignment_result = <<analyze_alignment(state.nodes_created, <<>>)>>,
                  !.current_step = "alignment_checked"]

\* existing_graph = {"nodes": [], "relationships": []}
_detect_contradictions(state) ==
    [state EXCEPT !.contradiction_result =
                      <<detect_contradictions(state.nodes_created, <<>>)>>,
                  !.current_step = "contradictions_checked"]

\* a _should_store with the two branch keys exchanged
_should_store_inverted(state) ==
    IF state.contradiction_result # <<>> /\ state.contradiction_result[1].has_contradiction
    THEN "store" ELSE "review"

\* state.get("contradiction_result", {}).get("has_contradiction", False)
_should_store(state) ==
    IF state.contradiction_result # <<>> /\ state.contradiction_result[1].has_contradiction
    THEN "review" ELSE "store"

\* state.get("embeddings_data", [])
EmbeddingsData(state) ==
    IF state.embeddings_data = <<>> THEN <<>> ELSE state.embeddings_data[1]

_store_embeddings(state) ==
    [state EXCEPT !.embeddings_stored = <<TRUE>>,
                  !.current_step = "embeddings_stored"]

\* alignment.get("new_relationships", [])
Relationships(state) ==
    IF state.alignment_result = <<>> THEN <<>>
    ELSE state.alignment_result[1].new_relationships

_update_graph(state) ==
    [state EXCEPT !.graph_updated = TRUE,
                  !.edges_created =
                      [i \in 1..Len(Relationships(state)) |->
                          <<Relationships(state)[i].from_id, "->",
                            Relationships(state)[i].to_id>>],
                  !.current_step = "graph_updated"]

_finalize_ingestion(state, now) ==
    [state EXCEPT !.status = "completed",
                  !.end_time = <<now>>,
                  !.current_step = "completed"]

\* an ingestion graph with an edge from check_alignment back to process_content
IngestionSuccessorCyclic(step, state) ==
    CASE step = "validate_content" ->
            IF _should_process(state) = "process" THEN "process_content" ELSE "END"
      [] step = "process_content" -> "check_alignment"
      [] step = "check_alignment" -> "process_content"
      [] step = "detect_contradictions" ->
            IF _should_store(state) = "store" THEN "store_embeddings" ELSE "END"
      [] step = "store_embeddings" -> "update_graph"
      [] step = "update_graph" -> "finalize_ingestion"
      [] step = "finalize_ingestion" -> "END"

\* an ingestion graph whose process_content edge skips check_alignment
IngestionSuccessorSkipping(step, state) ==
    CASE step = "validate_content" ->
            IF _should_process(state) = "process" THEN "process_content" ELSE "END"
      [] step = "process_content" -> "detect_contradictions"
      [] step = "check_alignment" -> "detect_contradictions"
      [] step = "detect_contradictions" ->
            IF _should_store(state) = "store" THEN "store_embeddings" ELSE "END"
      [] step = "store_embeddings" -> "update_graph"
      [] step = "update_graph" -> "finalize_ingestion"
      [] step = "finalize_ingestion" -> "END"

\* KnowledgeWorkflow._build_workflow: the successor of a step, given the
\* state the graph holds after it
IngestionSuccessor(step, state) ==
    CASE step = "validate_content" ->
            IF _should_process(state) = "process" THEN "process_content" ELSE "END"
      [] step = "process_content" -> "check_alignment"
      [] step = "check_alignment" -> "detect_contradictions"
      [] step = "detect_contradictions" ->
            IF _should_store(state) = "store" THEN "store_embeddings" ELSE "END"
      [] step = "store_embeddings" -> "update_graph"
      [] step = "update_graph" -> "finalize_ingestion"
      [] step = "finalize_ingestion" -> "END"

\* a store_embedding that leaves a point alone when its id is already there
UpsertIfAbsent(store, node_id, embedding, payload) ==
    [id \in DOMAIN store \cup {node_id} |->
        IF id \in DOMAIN store THEN store[id]
        ELSE [vector |-> embedding, payload |-> payload]]

\* QdrantClient.store_embedding: upsert of one point keyed by node id
Upsert(store, node_id, embedding, payload) ==
    [id \in DOMAIN store \cup {node_id} |->
        IF id = node_id THEN [vector |-> embedding, payload |-> payload]
        ELSE store[id]]

\* QdrantClient.get_embedding: the payload of the point, <<>> (None) when
\* there is none
get_embedding(store, node_id) ==
    IF node_id \in DOMAIN store THEN <<store[node_id].payload>> ELSE <<>>

RECURSIVE UpsertAll(_, _)
UpsertAll(store, tuples) ==
    IF tuples = <<>> THEN store
    ELSE UpsertAll(Upsert(store, tuples[1][1], tuples[1][2], tuples[1][3].metadata),
                   Tail(tuples))

\* ------------------------------------------------------------ the runs
IdleRun ==
    [ kind          |-> "none",
      pc            |-> "idle",
      workflow_id   |-> <<>>,
      input         |-> <<>>,
      chunks        |-> <<>>,
      upserted      |-> 0,
      linked        |-> 0,
      response      |-> <<>>,
      initial_state |-> <<>>,
      state         |-> <<>>,
      inputs        |-> <<>>,
      outputs       |-> <<>>,
      result        |-> <<>>,
      invoked       |-> <<>>,
      failure       |-> <<>>,
      faults        |-> {} ]

\* a step bookkeeping that reports the outcome of the run in the answer the
\* start operation gave
StepReturnedUpdatingResponse(rec, step, out, chan, succ) ==
    [rec EXCEPT !.invoked = Append(@, step),
                !.inputs = Append(@, rec.state[1]),
                !.outputs = Append(@, out),
                !.state = <<chan>>,
                !.pc = IF succ = "END" THEN "done" ELSE succ,
                !.result = IF succ = "END" THEN <<chan>> ELSE <<>>,
                !.response = IF succ = "END"
                             THEN <<[workflow_id |-> rec.workflow_id,
                                     status |-> chan.status]>>
                             ELSE @]

\* a step returned `out`; the graph holds `chan` and moves to `succ`
StepReturned(rec, step, out, chan, succ) ==
    [rec EXCEPT !.invoked = Append(@, step),
                !.inputs = Append(@, rec.state[1]),
                !.outputs = Append(@, out),
                !.state = <<chan>>,
                !.pc = IF succ = "END" THEN "done" ELSE succ,
                !.result = IF succ = "END" THEN <<chan>> ELSE <<>>]

\* a run() that retries the step that raised instead of returning
StepRaisedThenRetried(rec, step, cause, description, now) ==
    [rec EXCEPT !.invoked = Append(@, step),
                !.inputs = Append(@, rec.state[1]),
                !.failure = <<[step |-> step, cause |-> cause]>>]

\* a step raised: run()'s except branch
StepRaised(rec, step, cause, description, now) ==
    [rec EXCEPT !.invoked = Append(@, step),
                !.inputs = Append(@, rec.state[1]),
                !.pc = "done",
                !.initial_state = <<MarkFailed(rec.initial_state[1], description, now)>>,
                !.result = <<MarkFailed(rec.initial_state[1], description, now)>>,
                !.failure = <<[step |-> step, cause |-> cause]>>,
                !.faults = IF cause = "TypeError" THEN @ ELSE @ \cup {cause}]

\* main.py ingest_knowledge: queue the run as a background task and answer
IngestKnowledge(r) ==
    /\ runs[r].pc = "idle"
    /\ \E content \in SpecContents :
          runs' = [runs EXCEPT ![r] =
                      [IdleRun EXCEPT !.kind = "ingest",
                                      !.pc = "queued",
                                      !.workflow_id = <<"ingest", clock>>,
                                      !.input = content,
                                      !.response = <<[workflow_id |-> <<"ingest", clock>>,
                                                      status |-> "running"]>>]]
    /\ UNCHANGED <<clock, schema_only, vector_store, graph_store>>

\* KnowledgeWorkflow.run up to the first step: initial_state, compile, ainvoke
BeginIngestion(r) ==
    /\ runs[r].pc = "queued"
    /\ runs[r].kind = "ingest"
    /\ LET initial == IngestionInitialState(runs[r].workflow_id, runs[r].input,
                                            "metadata", <<>>, clock)
       IN  runs' = [runs EXCEPT ![r].initial_state = <<initial>>,
                                ![r].state = <<initial>>,
                                ![r].pc = "validate_content"]
    /\ UNCHANGED <<clock, schema_only, vector_store, graph_store>>

\* a validate_content step that works on an envelope kept on the workflow
\* object, the one of whichever run wrote it last
ValidateContentOnSharedState(r) ==
    /\ runs[r].pc = "validate_content"
    /\ \E q \in RunIds :
          /\ runs[q].state # <<>>
          /\ LET out == _validate_content(runs[q].state[1])
                 chan == IngestionChannels(out)
             IN  runs' = [runs EXCEPT ![r] =
                      StepReturned(runs[r], "validate_content", out, chan,
                                   IngestionSuccessor("validate_content", chan))]
    /\ UNCHANGED <<clock, schema_only, vector_store, graph_store>>

ValidateContent(r) ==
    /\ runs[r].pc = "validate_content"
    /\ LET out == _validate_content(runs[r].state[1])
           chan == IngestionChannels(out)
       IN  runs' = [runs EXCEPT ![r] =
                StepReturned(runs[r], "validate_content", out, chan,
                             IngestionSuccessor("validate_content", chan))]
    /\ UNCHANGED <<clock, schema_only, vector_store, graph_store>>

\* the splitter returns k chunks; the splitter or the embedder may raise
ProcessContent(r) ==
    /\ runs[r].pc = "process_content"
    /\ \E k \in 0..MaxChunks, raises \in BOOLEAN :
          LET state == runs[r].state[1]
              out == _process_content(state, split_text(state.content, k), clock)
              chan == IngestionChannels(out)
          IN  runs' = [runs EXCEPT ![r] =
                IF raises
                THEN StepRaised(runs[r], "process_content", "embedding",
                                "embedding failed", clock)
                ELSE [StepReturned(runs[r], "process_content", out, chan,
                                   IngestionSuccessor("process_content", chan))
                        EXCEPT !.chunks = <<split_text(state.content, k)>>]]
    /\ UNCHANGED <<clock, schema_only, vector_store, graph_store>>

CheckAlignment(r) ==
    /\ runs[r].pc = "check_alignment"
    /\ LET out == _check_alignment(runs[r].state[1])
           chan == IngestionChannels(out)
       IN  runs' = [runs EXCEPT ![r] =
                StepReturned(runs[r], "check_alignment", out, chan,
                             IngestionSuccessor("check_alignment", chan))]
    /\ UNCHANGED <<clock, schema_only, vector_store, graph_store>>

DetectContradictions(r) ==
    /\ runs[r].pc = "detect_contradictions"
    /\ LET out == _detect_contradictions(runs[r].state[1])
           chan == IngestionChannels(out)
       IN  runs' = [runs EXCEPT ![r] =
                StepReturned(runs[r], "detect_contradictions", out, chan,
                             IngestionSuccessor("detect_contradictions", chan))]
    /\ UNCHANGED <<clock, schema_only, vector_store, graph_store>>

\* a store_embeddings that undoes the upserts it made when one of them raises
StoreEmbeddingsRollingBack(r) ==
    /\ runs[r].pc = "store_embeddings"
    /\ LET state == runs[r].state[1]
           data == EmbeddingsData(state)
           out == _store_embeddings(state)
           chan == IngestionChannels(out)
       IN  \E fail_at \in 0..Len(data) :
             /\ vector_store' =
                    IF fail_at = 0 THEN UpsertAll(vector_store, data) ELSE vector_store
             /\ runs' = [runs EXCEPT ![r] =
                    [(IF fail_at > 0
                      THEN StepRaised(runs[r], "store_embeddings", "vector_upsert",
                                      "vector store failed", clock)
                      ELSE StepReturned(runs[r], "store_embeddings", out, chan,
                                        IngestionSuccessor("store_embeddings", chan)))
                       EXCEPT !.upserted = IF fail_at = 0 THEN Len(data) ELSE fail_at - 1]]
    /\ UNCHANGED <<clock, schema_only, graph_store>>

\* the upserts are made in order; upsert number fail_at raises (0: none does);
\* upserted counts the store_embedding calls of the run that returned
StoreEmbeddings(r) ==
    /\ runs[r].pc = "store_embeddings"
    /\ LET state == runs[r].state[1]
           data == EmbeddingsData(state)
           out == _store_embeddings(state)
           chan == IngestionChannels(out)
       IN  \E fail_at \in 0..Len(data) :
             /\ vector_store' =
                    UpsertAll(vector_store,
                              IF fail_at = 0 THEN data ELSE SubSeq(data, 1, fail_at - 1))
             /\ runs' = [runs EXCEPT ![r] =
                    [(IF fail_at > 0
                      THEN StepRaised(runs[r], "store_embeddings", "vector_upsert",
                                      "vector store failed", clock)
                      ELSE StepReturned(runs[r], "store_embeddings", out, chan,
                                        IngestionSuccessor("store_embeddings", chan)))
                       EXCEPT !.upserted = IF fail_at = 0 THEN Len(data) ELSE fail_at - 1]]
    /\ UNCHANGED <<clock, schema_only, graph_store>>

\* nodes_created holds node ids (str): node_data["id"] raises TypeError on the
\* first of them, before any graph-store call. With no node to create, one
\* create_relationship call is made per relationship, in order; the call
\* numbered fail_at raises (0: none does). A relationship is matched on nodes
\* of the graph store, which holds none of this run, so the node list stays.
UpdateGraph(r) ==
    /\ runs[r].pc = "update_graph"
    /\ LET state == runs[r].state[1]
           out == _update_graph(state)
           chan == IngestionChannels(out)
       IN  \E fail_at \in 0..Len(Relationships(state)) :
              runs' = [runs EXCEPT ![r] =
                IF state.nodes_created # <<>>
                THEN StepRaised(runs[r], "update_graph", "TypeError",
                                "string indices must be integers", clock)
                ELSE [(IF fail_at > 0
                       THEN StepRaised(runs[r], "update_graph", "graph_write",
                                       "graph store failed", clock)
                       ELSE StepReturned(runs[r], "update_graph", out, chan,
                                         IngestionSuccessor("update_graph", chan)))
                        EXCEPT !.linked = IF fail_at = 0
                                          THEN Len(Relationships(state))
                                          ELSE fail_at - 1]]
    /\ graph_store' = graph_store
    /\ UNCHANGED <<clock, schema_only, vector_store>>

FinalizeIngestion(r) ==
    /\ runs[r].pc = "finalize_ingestion"
    /\ LET out == _finalize_ingestion(runs[r].state[1], clock)
           chan == IngestionChannels(out)
       IN  runs' = [runs EXCEPT ![r] =
                StepReturned(runs[r], "finalize_ingestion", out, chan,
                             IngestionSuccessor("finalize_ingestion", chan))]
    /\ UNCHANGED <<clock, schema_only, vector_store, graph_store>>

\* the event loop's clock advances
Tick ==
    /\ clock < MaxClock
    /\ clock' = clock + 1
    /\ UNCHANGED <<schema_only, runs, vector_store, graph_store>>

IngestionStep(r) ==
    \/ BeginIngestion(r)
    \/ ValidateContent(r)
    \/ ProcessContent(r)
    \/ CheckAlignment(r)
    \/ DetectContradictions(r)
    \/ StoreEmbeddings(r)
    \/ UpdateGraph(r)
    \/ FinalizeIngestion(r)

\* ------------------------------------------------------ reasoning inputs
\* queries submitted to the reasoning pipeline: "", "Is sky", "sea"
Queries == { <<>>, <<"I", "s", " ", "s", "k", "y">>, <<"s", "e", "a">> }

\* workflow id of the ingestion run that wrote the points the stores hold
\* before any modelled run
SeedRun == <<"seed", 0>>

\* points the vector store holds before any modelled run; the payload of the
\* second has no "content" key
SeedPoints ==
    { [ id |-> <<SeedRun, 1>>, score |-> 9,
        metadata |-> [ content |-> <<"i", "t", " ", "i", "s">> ] ],
      [ id |-> <<SeedRun, 2>>, score |-> 7,
        metadata |-> [ content |-> <<"i", "s", " ", "n", "o", "t">> ] ],
      [ id |-> <<SeedRun, 3>>, score |-> 5,
        metadata |-> [ source |-> "web" ] ] }

\* records the full-text index of the graph store can return: dict(node) and
\* score; the first shares its id with a seed point, the last has no id
SeedRecords ==
    { [ node |-> [ id |-> <<<<SeedRun, 1>>>>, content |-> <<"s", "k", "y">> ], score |-> 3 ],
      [ node |-> [ id |-> <<<<SeedRun, 4>>>>, content |-> <<"y", "e", "s", " ", "a", "n", "d", " ", "n", "o">> ], score |-> 4 ],
      [ node |-> [ id |-> <<>>, content |-> <<"s", "e", "a">> ], score |-> 2 ] }

\* texts the generation collaborator can answer formulate_answer with
AnswerTexts ==
    { <<"o", "k">>,
      <<"L", "o", "w", " ", "c", "o", "n", "f", "i", "d", "e", "n", "c", "e">>,
      <<"h", "i", "g", "h", " ", "c", "o", "n", "f", "i", "d", "e", "n", "c", "e">>,
      <<"h", "i", "g", "h", " ", "c", "o", "n", "f", "i", "d", "e", "n", "c", "e", ",", " ", "o", "r", " ", "l", "o", "w", " ", "c", "o", "n", "f", "i", "d", "e", "n", "c", "e">> }

\* the query and the answer text of the concurrent specification
SpecQueries == { <<"I", "s", " ", "s", "k", "y">> }
SpecTexts == { <<"o", "k">> }

\* _retrieve_knowledge: search_similar(..., limit=10), search_nodes(..., limit=5)
VectorLimit == 10
GraphLimit == 5

\* the sequences over `pool` of at most n elements
SeqsUpTo(pool, n) == UNION { [1..k -> pool] : k \in 0..n }

\* hits QdrantClient.search_similar can return: the stored points, scored
StoredPoints ==
    { [ id |-> id, score |-> 8, metadata |-> vector_store[id].payload ] :
        id \in DOMAIN vector_store }

\* ------------------------------------------------- reasoning: envelopes
\* keys the reasoning steps write although ReasoningWorkflowState does not
\* declare them
ReasoningUndeclared ==
    { "query_analysis", "vector_results", "graph_results",
      "contradiction_analysis", "reasoning_text", "gap_analysis" }

\* ReasoningWorkflow.run: initial_state
ReasoningInitialState(workflow_id, query, context, now) ==
    [ workflow_id          |-> workflow_id,
      status               |-> "running",
      current_step         |-> "initialized",
      start_time           |-> now,
      end_time             |-> <<>>,
      error                |-> <<>>,
      query                |-> query,
      context              |-> context,
      retrieved_nodes      |-> <<>>,
      reasoning_path       |-> <<>>,
      answer               |-> <<>>,
      confidence           |-> 0,
      contradictions_found |-> <<>>,
      query_analysis         |-> <<>>,
      vector_results         |-> <<>>,
      graph_results          |-> <<>>,
      contradiction_analysis |-> <<>>,
      reasoning_text         |-> <<>>,
      gap_analysis           |-> <<>> ]

\* the state the compiled reasoning graph holds after a step returned `out`:
\* StateGraph(ReasoningWorkflowState) has one channel per declared key
ReasoningChannels(out) ==
    IF schema_only
    THEN [out EXCEPT !.query_analysis = <<>>,
                     !.vector_results = <<>>,
                     !.graph_results = <<>>,
                     !.contradiction_analysis = <<>>,
                     !.reasoning_text = <<>>,
                     !.gap_analysis = <<>>]
    ELSE out

\* -------------------------------------------------- reasoning: helpers
\* dict.get("content", "")
GetContent(mapping) ==
    IF "content" \in DOMAIN mapping THEN mapping.content ELSE <<>>

IdsOf(nodes) == {nodes[i].id : i \in 1..Len(nodes)}

RECURSIVE MergeVector(_, _)
\* first loop of _combine_search_results
MergeVector(combined, vector_results) ==
    IF vector_results = <<>> THEN combined
    ELSE LET result == Head(vector_results)
         IN  MergeVector(
                IF result.id \notin IdsOf(combined)
                THEN Append(combined,
                            [ id         |-> result.id,
                              content    |-> GetContent(result.metadata),
                              embedding  |-> <<>>,
                              metadata   |-> result.metadata,
                              confidence |-> result.score ])
                ELSE combined,
                Tail(vector_results))

RECURSIVE MergeGraph(_, _)
\* second loop of _combine_search_results; node_data.get("id") may be None
MergeGraph(combined, graph_results) ==
    IF graph_results = <<>> THEN combined
    ELSE LET result == Head(graph_results)
             node_data == result.node
         IN  MergeGraph(
                IF node_data.id # <<>> /\ node_data.id[1] \notin IdsOf(combined)
                THEN Append(combined,
                            [ id         |-> node_data.id[1],
                              content    |-> GetContent(node_data),
                              embedding  |-> <<>>,
                              metadata   |-> [ source |-> "graph" ],
                              confidence |-> result.score ])
                ELSE combined,
                Tail(graph_results))

\* a _combine_search_results that merges the graph results first
_combine_graph_first(vector_results, graph_results) ==
    MergeVector(MergeGraph(<<>>, graph_results), vector_results)

\* ReasoningWorkflow._combine_search_results: list(combined.values())
_combine_search_results(vector_results, graph_results) ==
    MergeGraph(MergeVector(<<>>, vector_results), graph_results)

\* ResearchAgent._identify_conceptual_gaps counts a node as shallow below
\* this many words
ShallowWords == 50

\* an identify_gaps that also counts a node of exactly ShallowWords words as
\* shallow
identify_gaps_shallow_inclusive(query, retrieved_nodes) ==
    LET query_terms == Terms(query)
        covered_terms ==
            UNION { Terms(retrieved_nodes[i].content) \cap query_terms :
                      i \in 1..Len(retrieved_nodes) }
        missing_terms == query_terms \ covered_terms
        shallow == SelectSeq(retrieved_nodes,
                             LAMBDA n : Len(Split(n.content)) <= ShallowWords)
    IN  [ gaps |->
              (IF missing_terms # {}
               THEN << [ type |-> "terminology_gap", severity |-> "medium",
                         about |-> missing_terms ] >>
               ELSE <<>>)
              \o (IF shallow # <<>>
                  THEN << [ type |-> "depth_gap", severity |-> "low",
                            about |-> IdsOf(shallow) ] >>
                  ELSE <<>>),
          coverage_score |->
              IF query_terms # {}
              THEN [ num |-> Cardinality(covered_terms),
                     den |-> Cardinality(query_terms) ]
              ELSE [ num |-> 1, den |-> 1 ] ]

\* an identify_gaps that divides by the number of query terms unguarded and
\* counts the missing terms
identify_gaps_missing_ratio(query, retrieved_nodes) ==
    LET query_terms == Terms(query)
        covered_terms ==
            UNION { Terms(retrieved_nodes[i].content) \cap query_terms :
                      i \in 1..Len(retrieved_nodes) }
        missing_terms == query_terms \ covered_terms
    IN  [ gaps |-> <<>>,
          coverage_score |-> [ num |-> Cardinality(missing_terms),
                               den |-> Cardinality(query_terms) ] ]

\* ResearchAgent.identify_gaps; coverage_score is the fraction covered / total,
\* and 1.0 (1 / 1) when the query has no terms
identify_gaps(query, retrieved_nodes) ==
    LET query_terms == Terms(query)
        covered_terms ==
            UNION { Terms(retrieved_nodes[i].content) \cap query_terms :
                      i \in 1..Len(retrieved_nodes) }
        missing_terms == query_terms \ covered_terms
        shallow == SelectSeq(retrieved_nodes,
                             LAMBDA n : Len(Split(n.content)) < ShallowWords)
    IN  [ gaps |->
              (IF missing_terms # {}
               THEN << [ type |-> "terminology_gap", severity |-> "medium",
                         about |-> missing_terms ] >>
               ELSE <<>>)
              \o (IF shallow # <<>>
                  THEN << [ type |-> "depth_gap", severity |-> "low",
                            about |-> IdsOf(shallow) ] >>
                  ELSE <<>>),
          coverage_score |->
              IF query_terms # {}
              THEN [ num |-> Cardinality(covered_terms),
                     den |-> Cardinality(query_terms) ]
              ELSE [ num |-> 1, den |-> 1 ] ]

\* ---------------------------------------------------- reasoning: steps
_analyze_query(state, analysis_text) ==
    [state EXCEPT !.query_analysis = <<analysis_text>>,
                  !.current_step = "query_analyzed"]

_retrieve_knowledge(state, vector_results, graph_results) ==
    [state EXCEPT !.retrieved_nodes =
                      _combine_search_results(vector_results, graph_results),
                  !.vector_results = <<vector_results>>,
                  !.graph_results = <<graph_results>>,
                  !.current_step = "knowledge_retrieved"]

\* the retrieved nodes are both the new and the existing set
_check_contradictions(state) ==
    LET contradiction_result ==
            detect_contradictions(state.retrieved_nodes, state.retrieved_nodes)
    IN  [state EXCEPT !.contradictions_found = contradiction_result.conflicting_nodes,
                      !.contradiction_analysis = <<contradiction_result>>,
                      !.current_step = "contradictions_checked"]

\* a _should_continue_reasoning that stops at two contradictions already
_should_continue_reasoning_from_two(state) ==
    IF Len(state.contradictions_found) >= 2 THEN "stop" ELSE "continue"

\* "stop" if len(contradictions) > 2 else "continue"
_should_continue_reasoning(state) ==
    IF Len(state.contradictions_found) > 2 THEN "stop" ELSE "continue"

\* a _generate_reasoning that takes the three nodes retrieved last, the last
\* one first
_generate_reasoning_last_three(state, reasoning_text) ==
    [state EXCEPT !.reasoning_text = <<reasoning_text>>,
                  !.reasoning_path =
                      [i \in 1..Min(3, Len(state.retrieved_nodes)) |->
                          state.retrieved_nodes[Len(state.retrieved_nodes) + 1 - i].id],
                  !.current_step = "reasoning_generated"]

\* reasoning_path: the ids of retrieved_nodes[:3]
_generate_reasoning(state, reasoning_text) ==
    [state EXCEPT !.reasoning_text = <<reasoning_text>>,
                  !.reasoning_path =
                      [i \in 1..Min(3, Len(state.retrieved_nodes)) |->
                          state.retrieved_nodes[i].id],
                  !.current_step = "reasoning_generated"]

_identify_gaps(state) ==
    [state EXCEPT !.gap_analysis = <<identify_gaps(state.query, state.retrieved_nodes)>>,
                  !.current_step = "gaps_identified"]

\* a formulate_answer that looks for "high confidence" first
_formulate_answer_high_first(state, answer_text) ==
    [state EXCEPT !.answer = <<answer_text>>,
                  !.confidence =
                      IF Contains(Lower(answer_text), <<"h", "i", "g", "h", " ", "c", "o", "n", "f", "i", "d", "e", "n", "c", "e">>)
                      THEN 9
                      ELSE IF Contains(Lower(answer_text), <<"l", "o", "w", " ", "c", "o", "n", "f", "i", "d", "e", "n", "c", "e">>)
                           THEN 5
                           ELSE 8,
                  !.current_step = "answer_formulated"]

\* confidence: 0.5 on "low confidence", else 0.9 on "high confidence", else 0.8
_formulate_answer(state, answer_text) ==
    [state EXCEPT !.answer = <<answer_text>>,
                  !.confidence =
                      IF Contains(Lower(answer_text), <<"l", "o", "w", " ", "c", "o", "n", "f", "i", "d", "e", "n", "c", "e">>)
                      THEN 5
                      ELSE IF Contains(Lower(answer_text), <<"h", "i", "g", "h", " ", "c", "o", "n", "f", "i", "d", "e", "n", "c", "e">>)
                           THEN 9
                           ELSE 8,
                  !.current_step = "answer_formulated"]

_finalize_reasoning(state, now) ==
    [state EXCEPT !.status = "completed",
                  !.end_time = <<now>>,
                  !.current_step = "completed"]

\* a reasoning graph whose "stop" branch leads to END
ReasoningSuccessorStopAtEnd(step, state) ==
    CASE step = "analyze_query" -> "retrieve_knowledge"
      [] step = "retrieve_knowledge" -> "check_contradictions"
      [] step = "check_contradictions" ->
            IF _should_continue_reasoning(state) = "continue"
            THEN "generate_reasoning" ELSE "END"
      [] step = "generate_reasoning" -> "identify_gaps"
      [] step = "identify_gaps" -> "formulate_answer"
      [] step = "formulate_answer" -> "finalize_reasoning"
      [] step = "finalize_reasoning" -> "END"

\* ReasoningWorkflow._build_workflow: the successor of a step, given the
\* state the graph holds after it
ReasoningSuccessor(step, state) ==
    CASE step = "analyze_query" -> "retrieve_knowledge"
      [] step = "retrieve_knowledge" -> "check_contradictions"
      [] step = "check_contradictions" ->
            IF _should_continue_reasoning(state) = "continue"
            THEN "generate_reasoning" ELSE "finalize_reasoning"
      [] step = "generate_reasoning" -> "identify_gaps"
      [] step = "identify_gaps" -> "formulate_answer"
      [] step = "formulate_answer" -> "finalize_reasoning"
      [] step = "finalize_reasoning" -> "END"

\* -------------------------------------------------- reasoning: actions
\* main.py reason_query: queue the run as a background task and answer
ReasonQuery(r) ==
    /\ runs[r].pc = "idle"
    /\ \E query \in SpecQueries :
          runs' = [runs EXCEPT ![r] =
                      [IdleRun EXCEPT !.kind = "reason",
                                      !.pc = "queued",
                                      !.workflow_id = <<"reason", clock>>,
                                      !.input = query,
                                      !.response = <<[workflow_id |-> <<"reason", clock>>,
                                                      status |-> "running"]>>]]
    /\ UNCHANGED <<clock, schema_only, vector_store, graph_store>>

\* ReasoningWorkflow.run up to the first step: initial_state, compile, ainvoke
BeginReasoning(r) ==
    /\ runs[r].pc = "queued"
    /\ runs[r].kind = "reason"
    /\ LET initial == ReasoningInitialState(runs[r].workflow_id, runs[r].input,
                                            "context", clock)
       IN  runs' = [runs EXCEPT ![r].initial_state = <<initial>>,
                                ![r].state = <<initial>>,
                                ![r].pc = "analyze_query"]
    /\ UNCHANGED <<clock, schema_only, vector_store, graph_store>>

\* self.llm.ainvoke answers or raises
AnalyzeQuery(r) ==
    /\ runs[r].pc = "analyze_query"
    /\ \E raises \in BOOLEAN :
          LET out == _analyze_query(runs[r].state[1], "analysis")
              chan == ReasoningChannels(out)
          IN  runs' = [runs EXCEPT ![r] =
                IF raises
                THEN StepRaised(runs[r], "analyze_query", "generation",
                                "generation failed", clock)
                ELSE StepReturned(runs[r], "analyze_query", out, chan,
                                  ReasoningSuccessor("analyze_query", chan))]
    /\ UNCHANGED <<clock, schema_only, vector_store, graph_store>>
\* a retrieve_knowledge that stores the embedding of the query as a point
RetrieveKnowledgeCaching(r, max_hits, points, records_held) ==
    /\ runs[r].pc = "retrieve_knowledge"
    /\ \E fault \in {"none", "embedding", "vector_search", "graph_search"},
          hits \in SeqsUpTo(points \cup StoredPoints, Min(max_hits, VectorLimit)),
          records \in SeqsUpTo(records_held, Min(max_hits, GraphLimit)) :
          LET vector_results == IF fault = "vector_search" THEN <<>> ELSE hits
              out == _retrieve_knowledge(runs[r].state[1], vector_results, records)
              chan == ReasoningChannels(out)
          IN  /\ fault = "vector_search" => hits = <<>>
              /\ fault \in {"embedding", "graph_search"} => hits = <<>> /\ records = <<>>
              /\ runs' = [runs EXCEPT ![r] =
                    IF fault \in {"embedding", "graph_search"}
                    THEN StepRaised(runs[r], "retrieve_knowledge", fault,
                                    "retrieval failed", clock)
                    ELSE [StepReturned(runs[r], "retrieve_knowledge", out, chan,
                                       ReasoningSuccessor("retrieve_knowledge", chan))
                            EXCEPT !.faults = IF fault = "vector_search"
                                              THEN @ \cup {fault} ELSE @]]
    /\ vector_store' = Upsert(vector_store, <<runs[r].workflow_id, 0>>,
                              Encode(runs[r].input), [ query |-> runs[r].input ])
    /\ UNCHANGED <<clock, schema_only, graph_store>>

\* the embedder or the graph search may raise (fault "embedding", "graph_search");
\* search_similar catches what the vector store raises and returns []
\* (fault "vector_search")
RetrieveKnowledge(r, max_hits, points, records_held) ==
    /\ runs[r].pc = "retrieve_knowledge"
    /\ \E fault \in {"none", "embedding", "vector_search", "graph_search"},
          hits \in SeqsUpTo(points \cup StoredPoints, Min(max_hits, VectorLimit)),
          records \in SeqsUpTo(records_held, Min(max_hits, GraphLimit)) :
          LET vector_results == IF fault = "vector_search" THEN <<>> ELSE hits
              out == _retrieve_knowledge(runs[r].state[1], vector_results, records)
              chan == ReasoningChannels(out)
          IN  /\ fault = "vector_search" => hits = <<>>
              /\ fault \in {"embedding", "graph_search"} => hits = <<>> /\ records = <<>>
              /\ runs' = [runs EXCEPT ![r] =
                    IF fault \in {"embedding", "graph_search"}
                    THEN StepRaised(runs[r], "retrieve_knowledge", fault,
                                    "retrieval failed", clock)
                    ELSE [StepReturned(runs[r], "retrieve_knowledge", out, chan,
                                       ReasoningSuccessor("retrieve_knowledge", chan))
                            EXCEPT !.faults = IF fault = "vector_search"
                                              THEN @ \cup {fault} ELSE @]]
    /\ UNCHANGED <<clock, schema_only, vector_store, graph_store>>

CheckContradictions(r) ==
    /\ runs[r].pc = "check_contradictions"
    /\ LET out == _check_contradictions(runs[r].state[1])
           chan == ReasoningChannels(out)
       IN  runs' = [runs EXCEPT ![r] =
                StepReturned(runs[r], "check_contradictions", out, chan,
                             ReasoningSuccessor("check_contradictions", chan))]
    /\ UNCHANGED <<clock, schema_only, vector_store, graph_store>>

GenerateReasoning(r) ==
    /\ runs[r].pc = "generate_reasoning"
    /\ \E raises \in BOOLEAN :
          LET out == _generate_reasoning(runs[r].state[1], "reasoning")
              chan == ReasoningChannels(out)
          IN  runs' = [runs EXCEPT ![r] =
                IF raises
                THEN StepRaised(runs[r], "generate_reasoning", "generation",
                                "generation failed", clock)
                ELSE StepReturned(runs[r], "generate_reasoning", out, chan,
                                  ReasoningSuccessor("generate_reasoning", chan))]
    /\ UNCHANGED <<clock, schema_only, vector_store, graph_store>>

IdentifyGaps(r) ==
    /\ runs[r].pc = "identify_gaps"
    /\ LET out == _identify_gaps(runs[r].state[1])
           chan == ReasoningChannels(out)
       IN  runs' = [runs EXCEPT ![r] =
                StepReturned(runs[r], "identify_gaps", out, chan,
                             ReasoningSuccessor("identify_gaps", chan))]
    /\ UNCHANGED <<clock, schema_only, vector_store, graph_store>>

FormulateAnswer(r, texts) ==
    /\ runs[r].pc = "formulate_answer"
    /\ \E raises \in BOOLEAN, answer_text \in texts :
          LET out == _formulate_answer(runs[r].state[1], answer_text)
              chan == ReasoningChannels(out)
          IN  runs' = [runs EXCEPT ![r] =
                IF raises
                THEN StepRaised(runs[r], "formulate_answer", "generation",
                                "generation failed", clock)
                ELSE StepReturned(runs[r], "formulate_answer", out, chan,
                                  ReasoningSuccessor("formulate_answer", chan))]
    /\ UNCHANGED <<clock, schema_only, vector_store, graph_store>>

FinalizeReasoning(r) ==
    /\ runs[r].pc = "finalize_reasoning"
    /\ LET out == _finalize_reasoning(runs[r].state[1], clock)
           chan == ReasoningChannels(out)
       IN  runs' = [runs EXCEPT ![r] =
                StepReturned(runs[r], "finalize_reasoning", out, chan,
                             ReasoningSuccessor("finalize_reasoning", chan))]
    /\ UNCHANGED <<clock, schema_only, vector_store, graph_store>>

\* the steps of reasoning run r, the stores answering a search with at most
\* max_hits hits, the vector store holding `points` besides what the modelled
\* runs stored, the graph index holding `records_held`, and the generation
\* collaborator answering with one of texts
ReasoningStep(r, max_hits, points, records_held, texts) ==
    \/ BeginReasoning(r)
    \/ AnalyzeQuery(r)
    \/ RetrieveKnowledge(r, max_hits, points, records_held)
    \/ CheckContradictions(r)
    \/ GenerateReasoning(r)
    \/ IdentifyGaps(r)
    \/ FormulateAnswer(r, texts)
    \/ FinalizeReasoning(r)

\* ------------------------------------- one ingestion run, every content
InitIngest ==
    /\ clock = 0
    /\ schema_only \in BOOLEAN
    /\ vector_store = <<>>
    /\ graph_store = <<>>
    /\ \E content \in Contents :
          runs = [r \in RunIds |->
                    IF r = 1
                    THEN [IdleRun EXCEPT !.kind = "ingest",
                                         !.pc = "queued",
                                         !.workflow_id = <<"ingest", 0>>,
                                         !.input = content,
                                         !.response = <<[workflow_id |-> <<"ingest", 0>>,
                                                         status |-> "running"]>>]
                    ELSE IdleRun]

NextIngest == IngestionStep(1)

SpecIngest == InitIngest /\ [][NextIngest]_vars

\* -------------------------------------- one reasoning run, every query
InitReason ==
    /\ clock = 0
    /\ schema_only \in BOOLEAN
    /\ vector_store = <<>>
    /\ graph_store = <<>>
    /\ \E query \in Queries :
          runs = [r \in RunIds |->
                    IF r = 1
                    THEN [IdleRun EXCEPT !.kind = "reason",
                                         !.pc = "queued",
                                         !.workflow_id = <<"reason", 0>>,
                                         !.input = query,
                                         !.response = <<[workflow_id |-> <<"reason", 0>>,
                                                         status |-> "running"]>>]
                    ELSE IdleRun]

NextReason == ReasoningStep(1, MaxHits, SeedPoints, SeedRecords, AnswerTexts)

SpecReason == InitReason /\ [][NextReason]_vars

\* ------------- one reasoning run over a store of phrase-bearing points
\* contents holding the phrases of the fixed pairs one at a time, in mixed
\* case, and one holding none
PhraseContents ==
    << <<"I", "t", " ", "I", "S">>, <<"i", "s", " ", "n", "o", "t">>, <<"T", "R", "U", "E">>, <<"F", "a", "l", "s", "e">>, <<"Y", "e", "s">>, <<"n", "o">>, <<"C", "o", "r", "r", "e", "c", "t">>, <<"i", "n", "c", "o", "r", "r", "e", "c", "t">>, <<"s", "k", "y">> >>

\* the points of a vector store holding one point per phrase content
PhrasePoints ==
    { [ id |-> <<SeedRun, 10 + i>>, score |-> 5,
        metadata |-> [ content |-> PhraseContents[i] ] ] :
        i \in 1..Len(PhraseContents) }

InitPhrases ==
    /\ clock = 0
    /\ schema_only \in BOOLEAN
    /\ vector_store = <<>>
    /\ graph_store = <<>>
    /\ \E query \in SpecQueries :
          runs = [r \in RunIds |->
                    IF r = 1
                    THEN [IdleRun EXCEPT !.kind = "reason",
                                         !.pc = "queued",
                                         !.workflow_id = <<"reason", 0>>,
                                         !.input = query,
                                         !.response = <<[workflow_id |-> <<"reason", 0>>,
                                                         status |-> "running"]>>]
                    ELSE IdleRun]

NextPhrases == ReasoningStep(1, MaxHits, PhrasePoints, {}, SpecTexts)

SpecPhrases == InitPhrases /\ [][NextPhrases]_vars

\* ------------------- one reasoning run over a store of five points
\* most hits the vector store returns to one search in this specification
PathHits == 4

\* contents "sky", "yes and no", "sea", "no", "not": the points are scored out
\* of retrieval order, and the second, fourth and fifth retrieved together
\* count three contradictions
PathContents ==
    << <<"s", "k", "y">>, <<"y", "e", "s", " ", "a", "n", "d", " ", "n", "o">>, <<"s", "e", "a">>, <<"n", "o">>, <<"n", "o", "t">> >>

PathScores == << 3, 9, 5, 7, 4 >>

PathPoints ==
    { [ id |-> <<SeedRun, 20 + i>>, score |-> PathScores[i],
        metadata |-> [ content |-> PathContents[i] ] ] :
        i \in 1..Len(PathContents) }

NextPath == ReasoningStep(1, PathHits, PathPoints, {}, SpecTexts)

SpecPath == InitPhrases /\ [][NextPath]_vars

\* ------------- one reasoning run over a store of long and short points
\* a content of n words of one letter, n > 0, a blank between two
WordsOf(n) == [i \in 1..(2 * n - 1) |-> IF i % 2 = 1 THEN "a" ELSE " "]

\* contents of ShallowWords - 1 words, of ShallowWords words, and "sky is"
GapContents ==
    << WordsOf(ShallowWords - 1), WordsOf(ShallowWords), <<"s", "k", "y", " ", "i", "s">> >>

GapPoints ==
    { [ id |-> <<SeedRun, 30 + i>>, score |-> 6,
        metadata |-> [ content |-> GapContents[i] ] ] :
        i \in 1..Len(GapContents) }

\* the query is "", "Is sky" or "sea"
InitGaps == InitReason

NextGaps == ReasoningStep(1, MaxHits, GapPoints, {}, SpecTexts)

SpecGaps == InitGaps /\ [][NextGaps]_vars

\* ------------- the alignment functions on nodes and candidates of their
\* declared types
\* the longest list of new nodes and of candidates
MaxAligned == 2

\* new nodes saying "a b c d", "", "Sky" and "a b c d e f g"
AlignNodes ==
    { [ id |-> <<SeedRun, 41>>, content |-> <<"a", " ", "b", " ", "c", " ", "d">> ],
      [ id |-> <<SeedRun, 44>>, content |-> <<"a", " ", "b", " ", "c", " ", "d", " ", "e", " ", "f", " ", "g">> ],
      [ id |-> <<SeedRun, 42>>, content |-> <<>> ],
      [ id |-> <<SeedRun, 43>>, content |-> <<"S", "k", "y">> ] }

\* candidates saying "a b c d e" (similarity 0.8 to "a b c d"), "a b c d e f"
\* (0.67), "", "sky" and "a b c d e f g h i j" (0.7 to "a b c d e f g")
AlignCandidates ==
    { [ id |-> <<SeedRun, 55>>, content |-> <<"a", " ", "b", " ", "c", " ", "d", " ", "e", " ", "f", " ", "g", " ", "h", " ", "i", " ", "j">> ],
      [ id |-> <<SeedRun, 51>>, content |-> <<"a", " ", "b", " ", "c", " ", "d", " ", "e">> ],
      [ id |-> <<SeedRun, 52>>, content |-> <<"a", " ", "b", " ", "c", " ", "d", " ", "e", " ", "f">> ],
      [ id |-> <<SeedRun, 53>>, content |-> <<>> ],
      [ id |-> <<SeedRun, 54>>, content |-> <<"s", "k", "y">> ] }

\* AlignmentAgent.analyze_alignment applied to a list of KnowledgeNode and an
\* existing_graph whose "similar_nodes" is the list of candidates, the result
\* put into the envelope as _check_alignment does
AnalyzeAlignment(r) ==
    /\ runs[r].pc = "analyze_alignment"
    /\ LET state == runs[r].state[1]
           out == [state EXCEPT !.alignment_result =
                                    <<analyze_alignment(runs[r].input[1], runs[r].input[2])>>,
                                !.current_step = "alignment_checked"]
       IN  runs' = [runs EXCEPT ![r] =
                StepReturned(runs[r], "analyze_alignment", out, out, "update_graph")]
    /\ UNCHANGED <<clock, schema_only, vector_store, graph_store>>

\* an envelope of KnowledgeIngestionState whose nodes_created (List[str]) is
\* empty or holds one id, about to be handed to the alignment functions and
\* then to _update_graph whole
InitAlign ==
    /\ clock = 0
    /\ schema_only = FALSE
    /\ vector_store = <<>>
    /\ graph_store = <<>>
    /\ \E nodes \in SeqsUpTo(AlignNodes, MaxAligned),
          similar_nodes \in SeqsUpTo(AlignCandidates, MaxAligned),
          nodes_created \in { <<>>, << <<SeedRun, 41>> >> } :
          runs = [r \in RunIds |->
                    IF r = 1
                    THEN LET initial_state ==
                                 [IngestionInitialState(<<"ingest", 0>>, <<>>, "metadata", <<>>, 0)
                                    EXCEPT !.nodes_created = nodes_created]
                         IN  [IdleRun EXCEPT !.kind = "ingest",
                                             !.pc = "analyze_alignment",
                                             !.workflow_id = <<"ingest", 0>>,
                                             !.input = <<nodes, similar_nodes>>,
                                             !.initial_state = <<initial_state>>,
                                             !.state = <<initial_state>>]
                    ELSE IdleRun]

NextAlign == AnalyzeAlignment(1) \/ UpdateGraph(1) \/ FinalizeIngestion(1)

SpecAlign == InitAlign /\ [][NextAlign]_vars

\* --------------------------- one run of either pipeline, every input
InitRun == InitIngest \/ InitReason

NextRun == NextIngest \/ NextReason

SpecRun == InitRun /\ [][NextRun]_vars

\* ---------- one run of either pipeline, scheduled by the event loop
\* an ingestion run of one of the three contents of the service, or a
\* reasoning run of its query
InitLive ==
    \/ InitPhrases
    \/ /\ clock = 0
       /\ schema_only \in BOOLEAN
       /\ vector_store = <<>>
       /\ graph_store = <<>>
       /\ \E content \in SpecContents :
             runs = [r \in RunIds |->
                       IF r = 1
                       THEN [IdleRun EXCEPT !.kind = "ingest",
                                            !.pc = "queued",
                                            !.workflow_id = <<"ingest", 0>>,
                                            !.input = content,
                                            !.response = <<[workflow_id |-> <<"ingest", 0>>,
                                                            status |-> "running"]>>]
                       ELSE IdleRun]

\* the stores of this specification hold one point, "is not", and one graph
\* record, "yes and no": retrieved together they count three contradictions
LivePoints == { p \in SeedPoints : p.id = <<SeedRun, 2>> }
LiveRecords == { rec \in SeedRecords : rec.node.id = << <<SeedRun, 4>> >> }

NextLive == NextIngest \/ ReasoningStep(1, MaxHits, LivePoints, LiveRecords, SpecTexts)

\* the task is resumed whenever the call it awaits has returned or raised, so
\* a step that can be taken is eventually taken
SpecLive == InitLive /\ [][NextLive]_vars /\ WF_vars(NextLive)

\* ------------------------------------------- the service: concurrent runs
Init ==
    /\ clock = 0
    /\ schema_only \in BOOLEAN
    /\ vector_store = <<>>
    /\ graph_store = <<>>
    /\ runs = [r \in RunIds |-> IdleRun]

\* run slots are taken in order: slot r is free for the next request once
\* every slot before it is taken
NextFree(r) == \A q \in RunIds : q < r => runs[q].pc # "idle"

Next ==
    \/ Tick
    \/ \E r \in RunIds :
          \/ NextFree(r) /\ IngestKnowledge(r)
          \/ NextFree(r) /\ ReasonQuery(r)
          \/ IngestionStep(r)
          \/ ReasoningStep(r, 1, {}, {}, SpecTexts)

Spec == Init /\ [][Next]_vars

\* ======================================================================
\* Properties
\* ======================================================================
\* run r has built its initial_state
Started(r) == runs[r].initial_state # <<>>

\* run() of run r has returned
Returned(r) == runs[r].result # <<>>

\* the envelope versions of run r in the order they were produced: the initial
\* state, the output of every step that returned, the envelope run() returned
EnvelopeVersions(r) ==
    << IF runs[r].inputs # <<>> THEN runs[r].inputs[1] ELSE runs[r].initial_state[1] >>
    \o runs[r].outputs
    \o runs[r].result

\* every envelope run r has held
AllEnvelopes(r) ==
    SeqToSet(EnvelopeVersions(r)) \cup SeqToSet(runs[r].inputs)
    \cup SeqToSet(runs[r].state) \cup SeqToSet(runs[r].initial_state)

IsPrefix(s, t) == Len(s) <= Len(t) /\ \A i \in 1..Len(s) : s[i] = t[i]

Last(s) == s[Len(s)]

IngestionOrder ==
    << "validate_content", "process_content", "check_alignment",
       "detect_contradictions", "store_embeddings", "update_graph",
       "finalize_ingestion" >>

ReasoningFull ==
    << "analyze_query", "retrieve_knowledge", "check_contradictions",
       "generate_reasoning", "identify_gaps", "formulate_answer",
       "finalize_reasoning" >>

ReasoningShort ==
    << "analyze_query", "retrieve_knowledge", "check_contradictions",
       "finalize_reasoning" >>

\* C1: in every envelope version of every run, status is running, completed or
\* failed, end_time is set exactly when status is not running, and along the
\* versions of a run status only goes from running to completed or to failed.
C1_StatusLifecycle ==
    \A r \in RunIds :
        Started(r) =>
            /\ \A e \in AllEnvelopes(r) :
                  /\ e.status \in {"running", "completed", "failed"}
                  /\ (e.end_time # <<>>) <=> (e.status # "running")
            /\ EnvelopeVersions(r)[1].status = "running"
            /\ \A i \in 1..(Len(EnvelopeVersions(r)) - 1) :
                  \/ EnvelopeVersions(r)[i].status = "running"
                  \/ EnvelopeVersions(r)[i + 1].status = EnvelopeVersions(r)[i].status

\* a run that went through two running versions and was then returned failed
C1_Witness ==
    \E r \in RunIds :
        /\ Returned(r)
        /\ Len(runs[r].outputs) >= 2
        /\ runs[r].result[1].status = "failed"
        /\ runs[r].result[1].end_time # <<>>

\* C2: when a step raises, the run is over at once: the step is not invoked
\* again, it is the last step invoked, run() has returned, and the envelope it
\* returned has status failed, the error description and end_time.
C2_RaiseAbortsRun ==
    \A r \in RunIds :
        runs[r].failure # <<>> =>
            /\ runs[r].pc = "done"
            /\ Last(runs[r].invoked) = runs[r].failure[1].step
            /\ Cardinality({i \in 1..Len(runs[r].invoked) :
                              runs[r].invoked[i] = runs[r].failure[1].step}) = 1
            /\ Len(runs[r].outputs) = Len(runs[r].invoked) - 1
            /\ Returned(r)
            /\ runs[r].result[1].status = "failed"
            /\ runs[r].result[1].error # <<>>
            /\ runs[r].result[1].end_time # <<>>

\* a run whose third step raised
C2_Witness ==
    \E r \in RunIds :
        /\ runs[r].failure # <<>>
        /\ Len(runs[r].invoked) >= 3
        /\ Returned(r)
        /\ runs[r].result[1].status = "failed"

\* the state known when the step of run r raised: the output of the last step
\* that returned, or the initial state when none did
LastKnown(r) ==
    IF runs[r].outputs # <<>> THEN Last(runs[r].outputs) ELSE runs[r].inputs[1]

\* C3: the envelope returned after a step raised is the last-known state with
\* only status, error and end_time changed.
C3_FailedEnvelopeIsLastKnown ==
    \A r \in RunIds :
        runs[r].failure # <<>> =>
            runs[r].result[1] =
                [LastKnown(r) EXCEPT !.status = "failed",
                                     !.error = runs[r].result[1].error,
                                     !.end_time = runs[r].result[1].end_time]

\* C4: the steps an ingestion run invokes are a prefix of the pipeline order,
\* the first step receives the initial state and every later one exactly the
\* output of the step before it, and a finished run left the order at the
\* reject terminal, at the review terminal, at the final terminal or at a step
\* that raised.
C4_IngestionOrder ==
    \A r \in RunIds :
        (runs[r].kind = "ingest" /\ Started(r)) =>
            /\ IsPrefix(runs[r].invoked, IngestionOrder)
            /\ Len(runs[r].inputs) = Len(runs[r].invoked)
            /\ \A i \in 1..Len(runs[r].inputs) :
                  runs[r].inputs[i] =
                      IF i = 1
                      THEN IngestionInitialState(runs[r].workflow_id, runs[r].input,
                                                 "metadata", <<>>,
                                                 runs[r].inputs[1].start_time)
                      ELSE runs[r].outputs[i - 1]
            /\ runs[r].pc \in SeqToSet(IngestionOrder) =>
                  /\ runs[r].pc = IngestionOrder[Len(runs[r].invoked) + 1]
                  /\ runs[r].invoked = <<>> \/ runs[r].state[1] = LastKnown(r)
            /\ runs[r].pc = "done" =>
                  \/ runs[r].failure # <<>>
                  \/ /\ runs[r].invoked = <<"validate_content">>
                     /\ _should_process(runs[r].state[1]) = "reject"
                  \/ /\ runs[r].invoked = SubSeq(IngestionOrder, 1, 4)
                     /\ _should_store(runs[r].state[1]) = "review"
                  \/ runs[r].invoked = IngestionOrder

\* an ingestion run that invoked the first six steps, each on the output of the
\* one before
C4_Witness ==
    \E r \in RunIds :
        /\ runs[r].kind = "ingest"
        /\ runs[r].invoked = SubSeq(IngestionOrder, 1, 6)
        /\ runs[r].inputs[6] = runs[r].outputs[5]
        /\ runs[r].inputs[6].nodes_created # <<>>

\* C5: a reasoning run invokes a prefix of the full order or of the short
\* order; when it has returned without a step raising, it invoked exactly one
\* of the two, finalize_reasoning once and last, and the envelope returned has
\* status completed and end_time set.
C5_ReasoningOrder ==
    \A r \in RunIds :
        (runs[r].kind = "reason" /\ Started(r)) =>
            /\ \/ IsPrefix(runs[r].invoked, ReasoningFull)
               \/ IsPrefix(runs[r].invoked, ReasoningShort)
            /\ (runs[r].pc = "done" /\ runs[r].failure = <<>>) =>
                  /\ runs[r].invoked \in {ReasoningFull, ReasoningShort}
                  /\ Returned(r)
                  /\ runs[r].result[1].status = "completed"
                  /\ runs[r].result[1].end_time # <<>>
                  /\ runs[r].result[1] = Last(runs[r].outputs) \/ schema_only

\* a reasoning run that took the stop branch and was returned completed
C5_Witness ==
    \E r \in RunIds :
        /\ runs[r].kind = "reason"
        /\ runs[r].invoked = ReasoningShort
        /\ Returned(r)
        /\ runs[r].result[1].status = "completed"
        /\ Len(runs[r].result[1].contradictions_found) > 2

\* the content of ingestion run r passes the two checks of validate_content
PassesValidation(r) ==
    /\ Len(Strip(runs[r].input)) >= 10
    /\ Len(Split(runs[r].input)) >= 5

\* C6: an ingestion run whose content passes validation, in which no
\* contradiction is found and no collaborator raises, ends at
\* finalize_ingestion: the graph store holds one node per produced node, and
\* the envelope returned has status completed, graph_updated and end_time.
C6_ValidRunCompletes ==
    \A r \in RunIds :
        ( /\ runs[r].kind = "ingest"
          /\ Returned(r)
          /\ PassesValidation(r)
          /\ runs[r].faults = {}
          /\ \A i \in 1..Len(runs[r].outputs) :
                \/ runs[r].outputs[i].contradiction_result = <<>>
                \/ ~runs[r].outputs[i].contradiction_result[1].has_contradiction )
        =>  /\ runs[r].invoked = IngestionOrder
            /\ runs[r].result[1].status = "completed"
            /\ runs[r].result[1].graph_updated
            /\ runs[r].result[1].end_time # <<>>
            /\ Len(graph_store) = Len(runs[r].result[1].nodes_created)

\* C7: an ingestion run whose content fails validation ends at the reject
\* terminal: no step raised, error is absent, validate_content is the only
\* step invoked, and the envelope returned has status completed.
C7_RejectedRunCompleted ==
    \A r \in RunIds :
        (runs[r].kind = "ingest" /\ Returned(r) /\ ~PassesValidation(r)) =>
            /\ runs[r].failure = <<>>
            /\ runs[r].result[1].error = <<>>
            /\ runs[r].invoked = <<"validate_content">>
            /\ runs[r].result[1].status = "completed"

\* C8: for a content whose trimmed length is below 10, validate_content
\* yields is_valid false with confidence at most 0.8, and the run ends without
\* creating nodes: validate_content is the only step invoked, nodes_created is
\* empty in every envelope and neither store is written.
C8_ShortContentCreatesNothing ==
    \A r \in RunIds :
        (runs[r].kind = "ingest" /\ Started(r) /\ Len(Strip(runs[r].input)) < 10) =>
            /\ IsPrefix(runs[r].invoked, <<"validate_content">>)
            /\ runs[r].outputs # <<>> =>
                  /\ runs[r].outputs[1].validation_result[1].is_valid = FALSE
                  /\ runs[r].outputs[1].validation_result[1].confidence <= 8
                  /\ runs[r].pc = "done"
                  /\ Returned(r)
            /\ \A e \in AllEnvelopes(r) :
                  e.nodes_created = <<>> /\ e.embeddings_data = <<>>
            /\ vector_store = <<>>
            /\ graph_store = <<>>

\* a returned run whose content has five words but only nine characters
C8_Witness ==
    \E r \in RunIds :
        /\ runs[r].kind = "ingest"
        /\ Returned(r)
        /\ Len(Strip(runs[r].input)) < 10
        /\ Len(Split(runs[r].input)) >= 5
        /\ runs[r].invoked = <<"validate_content">>
        /\ runs[r].result[1].nodes_created = <<>>

\* the number of the two checks of validate_content that the content fails
FailedChecks(content) ==
    (IF Len(Strip(content)) < 10 THEN 1 ELSE 0)
    + (IF Len(Split(content)) < 5 THEN 1 ELSE 0)

\* C9: validate_content reports is_valid exactly when it found no issue, which
\* is exactly when the trimmed content has 10 characters or more and the
\* content 5 words or more; is_valid and confidence depend on these two checks
\* only (not on the question-mark suggestion); and _should_process, applied to
\* the output of the step, selects "process" exactly when is_valid is true.
C9_ValidIffNoIssue ==
    \A r \in RunIds :
        (runs[r].kind = "ingest" /\ runs[r].outputs # <<>>) =>
            LET v == runs[r].outputs[1].validation_result[1]
            IN  /\ v.is_valid <=> (Len(v.issues) = 0)
                /\ v.is_valid <=> PassesValidation(r)
                /\ Len(v.issues) = FailedChecks(runs[r].input)
                /\ v.confidence = 10 - 2 * FailedChecks(runs[r].input)
                /\ (_should_process(runs[r].outputs[1]) = "process") <=> v.is_valid

\* a valid content with more question marks than full stops: the suggestion is
\* made, and the content is valid with confidence 1.0
C9_Witness ==
    \E r \in RunIds :
        /\ runs[r].kind = "ingest"
        /\ runs[r].outputs # <<>>
        /\ Count(runs[r].input, "?") > Count(runs[r].input, ".")
        /\ Len(runs[r].outputs[1].validation_result[1].suggestions) = 1
        /\ runs[r].outputs[1].validation_result[1].is_valid
        /\ runs[r].outputs[1].validation_result[1].confidence = 10
        /\ _should_process(runs[r].outputs[1]) = "process"

\* a node saying "the sky is not blue"
SkyNode ==
    [ id |-> <<SeedRun, 9>>,
      content |-> <<"t", "h", "e", " ", "s", "k", "y", " ", "i", "s", " ", "n", "o", "t", " ", "b", "l", "u", "e">> ]

C11_OneNodePerChunk ==
    \A r \in RunIds :
        (runs[r].kind = "ingest" /\ Len(runs[r].outputs) >= 2) =>
            LET chunks == runs[r].chunks[1]
                out    == runs[r].outputs[2]
                ids    == out.nodes_created
                tuples == out.embeddings_data[1]
            IN  /\ PassesValidation(r)
                /\ Len(ids) = Len(chunks)
                /\ \A i \in 1..Len(ids) : ids[i] = <<runs[r].workflow_id, i - 1>>
                /\ \A i, j \in 1..Len(ids) : i # j => ids[i] # ids[j]
                /\ Len(tuples) = Len(ids)
                /\ \A i \in 1..Len(tuples) :
                      /\ tuples[i][1] = ids[i]
                      /\ tuples[i][3].id = ids[i]
                      /\ tuples[i][3].content = chunks[i]
                      /\ tuples[i][3].metadata.chunk_index = i - 1
                      /\ tuples[i][3].metadata.total_chunks = Len(chunks)

\* process_content returned two nodes for a chunker output of two chunks
C11_Witness ==
    \E r \in RunIds :
        /\ runs[r].kind = "ingest"
        /\ Len(runs[r].outputs) >= 2
        /\ Len(runs[r].chunks[1]) = 2
        /\ runs[r].outputs[2].nodes_created =
              << <<runs[r].workflow_id, 0>>, <<runs[r].workflow_id, 1>> >>

\* C12: once check_contradictions has returned in a reasoning run: with more
\* than 2 entries in contradictions_found the next step is finalize_reasoning,
\* generate_reasoning, identify_gaps and formulate_answer are never invoked,
\* and the envelope returned has answer unset, confidence 0.0, an empty
\* reasoning_path and status completed; with 2 entries or fewer the next step
\* is generate_reasoning, and a run in which no step raises invokes
\* generate_reasoning, identify_gaps, formulate_answer, finalize_reasoning in
\* that order.
C12_StopOnContradictions ==
    \A r \in RunIds :
        (runs[r].kind = "reason" /\ Len(runs[r].outputs) >= 3) =>
            LET found == Len(runs[r].outputs[3].contradictions_found)
            IN  /\ found > 2 =>
                      /\ IsPrefix(runs[r].invoked, ReasoningShort)
                      /\ Len(runs[r].invoked) = 3 => runs[r].pc = "finalize_reasoning"
                      /\ Returned(r) =>
                            /\ runs[r].invoked = ReasoningShort
                            /\ runs[r].result[1].answer = <<>>
                            /\ runs[r].result[1].confidence = 0
                            /\ runs[r].result[1].reasoning_path = <<>>
                            /\ runs[r].result[1].status = "completed"
                /\ found <= 2 =>
                      /\ IsPrefix(runs[r].invoked, ReasoningFull)
                      /\ Len(runs[r].invoked) = 3 => runs[r].pc = "generate_reasoning"
                      /\ (Returned(r) /\ runs[r].failure = <<>>) =>
                            runs[r].invoked = ReasoningFull

\* a run returned after check_contradictions left three entries
C12_Witness ==
    \E r \in RunIds :
        /\ runs[r].kind = "reason"
        /\ Returned(r)
        /\ Len(runs[r].outputs) >= 3
        /\ Len(runs[r].outputs[3].contradictions_found) = 3
        /\ Len(runs[r].outputs[2].retrieved_nodes) = 2
        /\ runs[r].invoked = ReasoningShort

\* the (id, score, content) of the results of the two searches that carry an
\* id, the vector results first, each list in its own order
SearchOccurrences(vector_results, graph_results) ==
    LET with_id == SelectSeq(graph_results, LAMBDA g : g.node.id # <<>>)
    IN  [i \in 1..Len(vector_results) |->
            [ id |-> vector_results[i].id, score |-> vector_results[i].score,
              content |-> GetContent(vector_results[i].metadata) ]]
        \o [i \in 1..Len(with_id) |->
            [ id |-> with_id[i].node.id[1], score |-> with_id[i].score,
              content |-> GetContent(with_id[i].node) ]]

\* the position of the first occurrence of id in occurrences
FirstOccurrence(occurrences, id) ==
    CHOOSE i \in 1..Len(occurrences) :
        /\ occurrences[i].id = id
        /\ \A j \in 1..(i - 1) : occurrences[j].id # id

\* C13: once retrieve_knowledge has returned, retrieved_nodes holds no id
\* twice; it holds exactly the ids the two result lists carry; every record
\* is the one of the first occurrence of its id, the vector results counted
\* before the graph results (its confidence is that result's score, its
\* content that result's content); the records stand in first-occurrence
\* order; and there are no more of them than results, at most 10 + 5.
C13_FirstWriterWins ==
    \A r \in RunIds :
        (runs[r].kind = "reason" /\ Len(runs[r].outputs) >= 2) =>
            LET out == runs[r].outputs[2]
                nodes == out.retrieved_nodes
                occurrences == SearchOccurrences(out.vector_results[1],
                                                 out.graph_results[1])
            IN  /\ \A i, j \in 1..Len(nodes) : i # j => nodes[i].id # nodes[j].id
                /\ IdsOf(nodes) = IdsOf(occurrences)
                /\ \A i \in 1..Len(nodes) :
                      LET first == occurrences[FirstOccurrence(occurrences, nodes[i].id)]
                      IN  /\ nodes[i].confidence = first.score
                          /\ nodes[i].content = first.content
                /\ \A i, j \in 1..Len(nodes) :
                      i < j => FirstOccurrence(occurrences, nodes[i].id)
                                 < FirstOccurrence(occurrences, nodes[j].id)
                /\ Len(nodes) <= Len(out.vector_results[1]) + Len(out.graph_results[1])
                /\ Len(out.vector_results[1]) <= VectorLimit
                /\ Len(out.graph_results[1]) <= GraphLimit
                /\ Len(nodes) <= VectorLimit + GraphLimit

\* the id of the first seed point came back from the graph search and, after
\* another hit, from the vector search: the record kept is the vector one
C13_Witness ==
    \E r \in RunIds :
        /\ runs[r].kind = "reason"
        /\ Len(runs[r].outputs) >= 2
        /\ Len(runs[r].outputs[2].vector_results[1]) = 2
        /\ runs[r].outputs[2].vector_results[1][2].id = <<SeedRun, 1>>
        /\ \E i \in 1..Len(runs[r].outputs[2].graph_results[1]) :
              runs[r].outputs[2].graph_results[1][i].node.id = << <<SeedRun, 1>> >>
        /\ Len(runs[r].outputs[2].retrieved_nodes) = 2
        /\ runs[r].outputs[2].retrieved_nodes[2].id = <<SeedRun, 1>>
        /\ runs[r].outputs[2].retrieved_nodes[2].confidence = 9

\* C14: a collaborator call that fails during a run (embedding, generation,
\* vector-store upsert or search, graph-store search) ends the run at once:
\* run() has returned, and the envelope has status failed and error set.
C14_CollaboratorFailureFailsRun ==
    \A r \in RunIds :
        runs[r].faults # {} =>
            /\ runs[r].pc = "done"
            /\ Returned(r)
            /\ runs[r].result[1].status = "failed"
            /\ runs[r].result[1].error # <<>>

\* the envelope ingestion run r returns when it executes alone with the same
\* request, the same chunker output, the same failure and the same clock
\* readings: the steps applied one after the other to its own initial state
IngestionAlone(r) ==
    LET rec     == runs[r]
        initial == IngestionInitialState(rec.workflow_id, rec.input, "metadata",
                                         <<>>, rec.result[1].start_time)
        created == IF rec.chunks[1] # <<>>
                   THEN rec.outputs[2].embeddings_data[1][1][3].created_at
                   ELSE 0
        s1 == IngestionChannels(_validate_content(initial))
        s2 == IngestionChannels(_process_content(s1, rec.chunks[1], created))
        s3 == IngestionChannels(_check_alignment(s2))
        s4 == IngestionChannels(_detect_contradictions(s3))
        s5 == IngestionChannels(_store_embeddings(s4))
        s6 == IngestionChannels(_update_graph(s5))
        s7 == IngestionChannels(_finalize_ingestion(s6, rec.result[1].end_time[1]))
    IN  IF rec.failure # <<>>
        THEN MarkFailed(initial, rec.result[1].error[1], rec.result[1].end_time[1])
        ELSE IF _should_process(s1) = "reject" THEN s1
        ELSE IF _should_store(s4) = "review" THEN s4
        ELSE s7

\* every envelope of run r is r's own: it carries r's workflow_id and r's
\* request, the first step received r's initial state and every later step
\* the envelope the graph held after r's step before it
OwnEnvelopes(r) ==
    /\ \A e \in AllEnvelopes(r) :
          /\ e.workflow_id = runs[r].workflow_id
          /\ runs[r].kind = "ingest" => e.content = runs[r].input
          /\ runs[r].kind = "reason" => e.query = runs[r].input
    /\ \A i \in 1..Len(runs[r].inputs) :
          /\ i = 1 => runs[r].inputs[i].current_step = "initialized"
          /\ (i > 1 /\ runs[r].kind = "ingest") =>
                runs[r].inputs[i] = IngestionChannels(runs[r].outputs[i - 1])
          /\ (i > 1 /\ runs[r].kind = "reason") =>
                runs[r].inputs[i] = ReasoningChannels(runs[r].outputs[i - 1])

\* C15: with several runs interleaved step by step, a step of one run leaves
\* the record of every other run as it was, every envelope a run holds is its
\* own, and the envelope an ingestion run returns is the one it returns when
\* it executes alone.
C15_RunsDoNotShareEnvelopes ==
    /\ [](\A r \in RunIds :
             /\ Started(r) => OwnEnvelopes(r)
             /\ (runs[r].kind = "ingest" /\ Returned(r)) =>
                   runs[r].result[1] = IngestionAlone(r))
    /\ [][\A r, q \in RunIds :
             (r # q /\ runs[r]' # runs[r]) => runs[q]' = runs[q]]_vars

\* two ingestion runs of different contents were both under way, and both
\* have returned, the first one completed
C15_Witness ==
    /\ runs[1].kind = "ingest" /\ runs[2].kind = "ingest"
    /\ runs[1].input # runs[2].input
    /\ Returned(1) /\ Returned(2)
    /\ Len(runs[2].invoked) >= 1
    /\ runs[1].result[1].status = "completed"
    /\ runs[1].result[1].start_time <= runs[2].result[1].start_time
    /\ runs[2].result[1].start_time < runs[1].result[1].end_time[1]

\* C16: two distinct runs started through the start operations have different
\* workflow ids, two ingestion runs have no node id in common, and no
\* vector-store entry written by one is overwritten by the other.
C16_DistinctWorkflowIds ==
    \A r, q \in RunIds :
        (r # q /\ runs[r].pc # "idle" /\ runs[q].pc # "idle") =>
            /\ runs[r].workflow_id # runs[q].workflow_id
            /\ \A e \in AllEnvelopes(r), f \in AllEnvelopes(q) :
                  (runs[r].kind = "ingest" /\ runs[q].kind = "ingest") =>
                      SeqToSet(e.nodes_created) \cap SeqToSet(f.nodes_created) = {}

\* C20: the answer of a start operation is the run's workflow id with status
\* "running"; it is given before the run has built its initial state or
\* invoked a step, and it stays what it was whatever the run does afterwards
\* and however it ends (completed, rejected or failed).
C20_StartReturnsAtOnce ==
    /\ [](\A r \in RunIds :
             /\ runs[r].pc = "idle" => runs[r].response = <<>>
             /\ runs[r].pc # "idle" =>
                   runs[r].response = <<[workflow_id |-> runs[r].workflow_id,
                                         status |-> "running"]>>
             /\ runs[r].pc = "queued" =>
                   /\ runs[r].initial_state = <<>>
                   /\ runs[r].invoked = <<>>
                   /\ runs[r].result = <<>>)
    /\ [][\A r \in RunIds :
             runs[r].response # <<>> => runs[r].response' = runs[r].response]_vars

\* the three outcomes, each with the answer still saying "running": a
\* completed ingestion run, and a rejected or failed second run
C20_Witness ==
    /\ runs[1].kind = "ingest"
    /\ Returned(1)
    /\ runs[1].result[1].status = "completed"
    /\ runs[1].response[1].status = "running"
    /\ Returned(2)
    /\ runs[2].result[1].status \in {"running", "failed"}
    /\ runs[2].response[1].status = "running"

\* the positive phrase stands in the lower-cased first text and the negative
\* phrase in the lower-cased second text
PhrasePair(positive, negative, first, second) ==
    Contains(Lower(first), positive) /\ Contains(Lower(second), negative)

\* one of the four fixed pairs stands in (first, second), in this direction
FixedPairIn(first, second) ==
    \/ PhrasePair(<<"i", "s">>, <<"i", "s", " ", "n", "o", "t">>, first, second)
    \/ PhrasePair(<<"t", "r", "u", "e">>, <<"f", "a", "l", "s", "e">>, first, second)
    \/ PhrasePair(<<"y", "e", "s">>, <<"n", "o">>, first, second)
    \/ PhrasePair(<<"c", "o", "r", "r", "e", "c", "t">>, <<"i", "n", "c", "o", "r", "r", "e", "c", "t">>, first, second)

\* C17: once check_contradictions has returned, the contradictions reported
\* are those of exactly the ordered pairs (first, second) of retrieved nodes
\* in which one of the fixed pairs stands, positive phrase in the first
\* node's lower-cased content, negative phrase in the second's; each is a
\* high-severity direct_contradiction; a pair of nodes holding no phrase
\* reports nothing; and ("It IS", "is not") is reported while
\* ("is not", "It IS") is not.
C17_AsymmetricPhraseScan ==
    /\ \A r \in RunIds :
          (runs[r].kind = "reason" /\ Len(runs[r].outputs) >= 3) =>
              LET nodes == runs[r].outputs[2].retrieved_nodes
                  analysis == runs[r].outputs[3].contradiction_analysis[1]
                  pairs == Pairs(nodes, nodes)
                  expected == SelectSeq(pairs, LAMBDA p : FixedPairIn(p[1].content, p[2].content))
              IN  /\ analysis.conflicting_nodes =
                        [i \in 1..Len(expected) |-> expected[i][1].id]
                  /\ analysis.has_contradiction <=> expected # <<>>
                  /\ expected # <<>> => analysis.severity = "high"
                  /\ \A i, j \in 1..Len(nodes) :
                        LET report == _check_contradiction(nodes[i], nodes[j])
                        IN  /\ report # <<>> <=> FixedPairIn(nodes[i].content, nodes[j].content)
                            /\ report # <<>> =>
                                  report[1] = [ type |-> "direct_contradiction",
                                                severity |-> "high" ]
    /\ LET first  == [ id |-> <<SeedRun, 11>>, content |-> PhraseContents[1] ]
           second == [ id |-> <<SeedRun, 12>>, content |-> PhraseContents[2] ]
           plain  == [ id |-> <<SeedRun, 19>>, content |-> PhraseContents[9] ]
       IN  /\ _check_contradiction(first, second) # <<>>
           /\ _check_contradiction(second, first) = <<>>
           /\ _check_contradiction(plain, plain) = <<>>

\* "It IS" and "is not" were retrieved in this order: the pair is reported in
\* this direction only, besides "is not" against itself
C17_Witness ==
    \E r \in RunIds :
        /\ runs[r].kind = "reason"
        /\ Len(runs[r].outputs) >= 3
        /\ Len(runs[r].outputs[2].retrieved_nodes) = 2
        /\ runs[r].outputs[2].retrieved_nodes[1].content = PhraseContents[1]
        /\ runs[r].outputs[2].retrieved_nodes[2].content = PhraseContents[2]
        /\ runs[r].outputs[3].contradiction_analysis[1].conflicting_nodes =
              << <<SeedRun, 11>>, <<SeedRun, 12>> >>

\* the lower-cased query terms that stand, as a word, in the lower-cased
\* content of at least one of the nodes
CoveredTerms(query, nodes) ==
    { t \in Terms(query) : \E i \in 1..Len(nodes) : t \in Terms(nodes[i].content) }

\* C18: once identify_gaps has returned, coverage_score is the fraction
\* (covered query terms) / (query terms), with a non-zero denominator: 1.0
\* when every query term is covered, 0.0 when the query has terms and none is
\* covered (also with no node retrieved), 1.0 when the query has no term, and
\* always between 0 and 1.
C18_CoverageScore ==
    \A r \in RunIds :
        (runs[r].kind = "reason" /\ Len(runs[r].outputs) >= 5) =>
            LET nodes == runs[r].outputs[5].retrieved_nodes
                score == runs[r].outputs[5].gap_analysis[1].coverage_score
                terms == Terms(runs[r].input)
                covered == CoveredTerms(runs[r].input, nodes)
            IN  /\ score.den > 0
                /\ 0 <= score.num /\ score.num <= score.den
                /\ terms = {} => score.num = score.den
                /\ terms # {} =>
                      /\ score.num * Cardinality(terms) = Cardinality(covered) * score.den
                      /\ covered = terms <=> score.num = score.den
                      /\ covered = {} <=> score.num = 0
                      /\ nodes = <<>> => score.num = 0

\* a query of two terms with one covered, the score being 1/2
C18_Witness ==
    \E r \in RunIds :
        /\ runs[r].kind = "reason"
        /\ Len(runs[r].outputs) >= 5
        /\ Cardinality(Terms(runs[r].input)) = 2
        /\ Cardinality(CoveredTerms(runs[r].input, runs[r].outputs[5].retrieved_nodes)) = 1
        /\ runs[r].outputs[5].gap_analysis[1].coverage_score = [num |-> 1, den |-> 2]

\* the (id, embedding, node) tuples run r hands to the vector store
TuplesOf(r) ==
    IF runs[r].state = <<>> THEN <<>> ELSE EmbeddingsData(runs[r].state[1])

\* C19: when store_embeddings completes in a run, the vector store holds,
\* for every node id process_content produced in that run, a point keyed by
\* that id, and get_embedding of the id returns the metadata upserted for it;
\* a point only ever changes to the metadata a run in store_embeddings upserts
\* for its id (the last upsert stands), and no point disappears.
C19_StoreThenRetrieve ==
    /\ [][\A r \in RunIds :
             (runs[r].pc = "store_embeddings" /\ runs'[r].pc = "update_graph") =>
                 /\ Len(TuplesOf(r)) = Len(runs[r].state[1].nodes_created)
                 /\ \A i \in 1..Len(TuplesOf(r)) :
                       /\ TuplesOf(r)[i][1] = runs[r].state[1].nodes_created[i]
                       /\ get_embedding(vector_store', TuplesOf(r)[i][1])
                             = <<TuplesOf(r)[i][3].metadata>>]_vars
    /\ [][\A id \in DOMAIN vector_store :
             /\ id \in DOMAIN vector_store'
             /\ get_embedding(vector_store', id) # get_embedding(vector_store, id) =>
                   \E r \in RunIds : \E i \in 1..Len(TuplesOf(r)) :
                       /\ runs[r].pc = "store_embeddings"
                       /\ runs'[r].pc # "store_embeddings"
                       /\ TuplesOf(r)[i][1] = id
                       /\ get_embedding(vector_store', id) = <<TuplesOf(r)[i][3].metadata>>]_vars
    /\ [](\A r \in RunIds :
             (runs[r].kind = "ingest" /\ Len(runs[r].outputs) >= 5) =>
                 \A i \in 1..Len(runs[r].outputs[5].nodes_created) :
                     get_embedding(vector_store, runs[r].outputs[5].nodes_created[i]) # <<>>)

\* two runs with the same workflow id stored a first chunk each, of different
\* metadata; the store holds the one upserted last
C19_Witness ==
    /\ runs[1].kind = "ingest" /\ runs[2].kind = "ingest"
    /\ runs[1].workflow_id = runs[2].workflow_id
    /\ Len(runs[1].outputs) >= 5 /\ Len(runs[2].outputs) = 5
    /\ runs[1].outputs[5].nodes_created # <<>>
    /\ runs[2].outputs[5].nodes_created # <<>>
    /\ runs[1].outputs[5].embeddings_data[1][1][3].metadata
          # runs[2].outputs[5].embeddings_data[1][1][3].metadata
    /\ get_embedding(vector_store, runs[2].outputs[5].nodes_created[1])
          \in { <<runs[1].outputs[5].embeddings_data[1][1][3].metadata>>,
                <<runs[2].outputs[5].embeddings_data[1][1][3].metadata>> }
\* C21: in every envelope version of every run, error is set exactly when
\* status is failed; the envelope run() returned carries a status, and carries
\* error when that status is failed.
C21_ErrorIffFailed ==
    \A r \in RunIds :
        Started(r) =>
            /\ \A e \in AllEnvelopes(r) :
                  (e.error # <<>>) <=> (e.status = "failed")
            /\ \A i \in 1..Len(EnvelopeVersions(r)) :
                  (EnvelopeVersions(r)[i].error # <<>>)
                      <=> (EnvelopeVersions(r)[i].status = "failed")
            /\ Returned(r) =>
                  /\ "status" \in DOMAIN runs[r].result[1]
                  /\ runs[r].result[1].status \in {"running", "completed", "failed"}
                  /\ runs[r].result[1].status = "failed" =>
                        runs[r].result[1].error # <<>>
                  /\ runs[r].failure # <<>> <=> runs[r].result[1].status = "failed"

\* a run returned failed with its error description after three steps had
\* returned envelopes without error
C21_Witness ==
    \E r \in RunIds :
        /\ Returned(r)
        /\ Len(runs[r].outputs) >= 3
        /\ \A i \in 1..Len(runs[r].outputs) : runs[r].outputs[i].error = <<>>
        /\ runs[r].result[1].status = "failed"
        /\ runs[r].result[1].error # <<>>

\* the step named `step` was selected as the successor in run r
Selected(r, step) ==
    \/ runs[r].pc = step
    \/ \E i \in 1..Len(runs[r].invoked) : runs[r].invoked[i] = step

\* C22: each branch predicate is evaluated on the envelope the step before it
\* returned, so the branch taken agrees with what that step computed:
\* process_content is selected exactly when validate_content computed is_valid
\* true, store_embeddings exactly when detect_contradictions computed
\* has_contradiction false, and generate_reasoning exactly when
\* check_contradictions left at most 2 entries in contradictions_found; the
\* envelope the graph holds after the branch is the one the step returned.
C22_BranchAgreesWithStep ==
    \A r \in RunIds :
        /\ (runs[r].kind = "ingest" /\ Len(runs[r].outputs) >= 1) =>
              /\ Selected(r, "process_content")
                    <=> runs[r].outputs[1].validation_result[1].is_valid
              /\ Len(runs[r].inputs) >= 2 => runs[r].inputs[2] = runs[r].outputs[1]
        /\ (runs[r].kind = "ingest" /\ Len(runs[r].outputs) >= 4) =>
              /\ Selected(r, "store_embeddings")
                    <=> ~runs[r].outputs[4].contradiction_result[1].has_contradiction
              /\ Len(runs[r].inputs) >= 5 => runs[r].inputs[5] = runs[r].outputs[4]
        /\ (runs[r].kind = "reason" /\ Len(runs[r].outputs) >= 3) =>
              /\ Selected(r, "generate_reasoning")
                    <=> Len(runs[r].outputs[3].contradictions_found) <= 2
              /\ Len(runs[r].inputs) >= 4 =>
                    runs[r].inputs[4].contradictions_found
                        = runs[r].outputs[3].contradictions_found

\* the (id, embedding, node) tuples process_content produced in run r
ProducedTuples(r) ==
    IF Len(runs[r].outputs) >= 2 THEN EmbeddingsData(runs[r].outputs[2]) ELSE <<>>

\* C23: in an ingestion run the graph store is not written before
\* store_embeddings has completed; when store_embeddings raised on its k-th
\* tuple, the k - 1 points upserted before it are in the vector store with
\* their metadata and no other point of the run is, the graph store holds
\* nothing of the run, and the run returned failed; when update_graph raised,
\* every point of the run is in the vector store and the run returned failed.
C23_NoRollback ==
    \A r \in RunIds :
        (runs[r].kind = "ingest" /\ Started(r)) =>
            LET tuples == ProducedTuples(r)
                stored == runs[r].upserted
            IN  /\ graph_store # <<>> => Len(runs[r].outputs) >= 5
                /\ Len(runs[r].outputs) < 5 /\ runs[r].failure = <<>> => stored = 0
                /\ stored <= Len(tuples)
                /\ \A i \in 1..Len(tuples) :
                      IF i <= stored
                      THEN get_embedding(vector_store, tuples[i][1])
                               = <<tuples[i][3].metadata>>
                      ELSE get_embedding(vector_store, tuples[i][1]) = <<>>
                /\ (runs[r].failure # <<>> /\ runs[r].failure[1].step = "store_embeddings") =>
                      /\ stored < Len(tuples)
                      /\ graph_store = <<>>
                      /\ runs[r].result[1].status = "failed"
                      /\ runs[r].result[1].graph_updated = FALSE
                      /\ runs[r].result[1].edges_created = <<>>
                /\ (runs[r].failure # <<>> /\ runs[r].failure[1].step = "update_graph") =>
                      /\ stored = Len(tuples)
                      /\ runs[r].result[1].status = "failed"

\* store_embeddings raised on the second of two tuples: the first point is in
\* the vector store, the second is not, and the run returned failed
C23_Witness ==
    \E r \in RunIds :
        /\ runs[r].kind = "ingest"
        /\ runs[r].failure # <<>>
        /\ runs[r].failure[1].step = "store_embeddings"
        /\ Len(ProducedTuples(r)) = 2
        /\ runs[r].upserted = 1
        /\ get_embedding(vector_store, ProducedTuples(r)[1][1]) # <<>>
        /\ get_embedding(vector_store, ProducedTuples(r)[2][1]) = <<>>
        /\ runs[r].result[1].status = "failed"

\* C24: once check_contradictions has returned, contradictions_found holds no
\* node id twice, and a run that retrieved 2 nodes or fewer goes on to
\* generate_reasoning and never takes the stop branch.
C24_CountsConflictingNodes ==
    \A r \in RunIds :
        (runs[r].kind = "reason" /\ Len(runs[r].outputs) >= 3) =>
            LET found == runs[r].outputs[3].contradictions_found
                nodes == runs[r].outputs[2].retrieved_nodes
            IN  /\ \A i, j \in 1..Len(found) : i # j => found[i] # found[j]
                /\ Len(found) <= Len(nodes)
                /\ Len(nodes) <= 2 =>
                      /\ Selected(r, "generate_reasoning")
                      /\ IsPrefix(runs[r].invoked, ReasoningFull)

\* C25: every run terminates. A run invokes no step twice and at most 7 steps
\* in all, and, each collaborator call returning or raising, a run that was
\* queued reaches the point where run() has returned, at a terminal point of
\* the graph or after a step raised.
C25_EveryRunTerminates ==
    /\ [](\A r \in RunIds :
             /\ Len(runs[r].invoked) <= 7
             /\ \A i, j \in 1..Len(runs[r].invoked) :
                   i # j => runs[r].invoked[i] # runs[r].invoked[j])
    /\ \A r \in RunIds :
          (runs[r].pc = "queued") ~> (runs[r].pc = "done" /\ Returned(r))

\* a run that returned after 7 step invocations, and so invoked every step of
\* its pipeline once
C25_Witness ==
    \E r \in RunIds :
        /\ runs[r].pc = "done"
        /\ Returned(r)
        /\ Len(runs[r].invoked) = 7
        /\ runs[r].invoked \in {IngestionOrder, ReasoningFull}

\* C26: current_step names the last step that completed. The markers the
\* steps of a run wrote are pairwise distinct and none is "initialized"; the
\* envelope the graph holds, and the envelope run() returned (also after a
\* step raised), carries the marker of the last step that returned, or
\* "initialized" when none has; and current_step is "completed" exactly when
\* status is completed.
C26_CurrentStepIsLastCompleted ==
    \A r \in RunIds :
        Started(r) =>
            LET written == [i \in 1..Len(runs[r].outputs) |->
                              runs[r].outputs[i].current_step]
                last == IF written = <<>> THEN "initialized" ELSE Last(written)
            IN  /\ \A i, j \in 1..Len(written) : i # j => written[i] # written[j]
                /\ \A i \in 1..Len(written) : written[i] # "initialized"
                /\ runs[r].state[1].current_step = last
                /\ Returned(r) => runs[r].result[1].current_step = last
                /\ \A e \in AllEnvelopes(r) :
                      (e.current_step = "completed") <=> (e.status = "completed")

\* C27: no step changes the input fields of a run. Every envelope version of
\* an ingestion run, the envelope returned after a failure included, carries
\* the workflow_id, start_time, content, source and metadata of the initial
\* state, and every envelope version of a reasoning run its workflow_id,
\* start_time, query and context; content and query are those of the request.
C27_InputsUnchanged ==
    \A r \in RunIds :
        Started(r) =>
            LET first == EnvelopeVersions(r)[1]
            IN  /\ first.workflow_id = runs[r].workflow_id
                /\ \A e \in AllEnvelopes(r) :
                      /\ e.workflow_id = first.workflow_id
                      /\ e.start_time = first.start_time
                      /\ runs[r].kind = "ingest" =>
                            /\ e.content = runs[r].input
                            /\ e.source = first.source
                            /\ e.metadata = first.metadata
                      /\ runs[r].kind = "reason" =>
                            /\ e.query = runs[r].input
                            /\ e.context = first.context
                /\ \A i \in 1..Len(EnvelopeVersions(r)) :
                      /\ runs[r].kind = "ingest" =>
                            EnvelopeVersions(r)[i].content = first.content
                      /\ runs[r].kind = "reason" =>
                            EnvelopeVersions(r)[i].query = first.query

\* an ingestion run of a content with leading white space returned failed
\* after four steps had returned, the content being as submitted
C27_Witness ==
    \E r \in RunIds :
        /\ runs[r].kind = "ingest"
        /\ Returned(r)
        /\ runs[r].failure # <<>>
        /\ Len(runs[r].outputs) >= 4
        /\ Strip(runs[r].input) # runs[r].input
        /\ runs[r].result[1].content = runs[r].input
        /\ runs[r].outputs[4].content = runs[r].input

\* the place of a severity in the order low < medium < high
SeverityRank(severity) ==
    CASE severity = "low" -> 1 [] severity = "medium" -> 2 [] severity = "high" -> 3

\* the severities of the contradictions of the ordered pairs of `nodes`
SeveritiesFound(nodes) ==
    { _check_contradiction(nodes[i], nodes[j])[1].severity :
        <<i, j>> \in { p \in (1..Len(nodes)) \X (1..Len(nodes)) :
                         FixedPairIn(nodes[p[1]].content, nodes[p[2]].content) } }

\* C28: detect_contradictions reports has_contradiction exactly when at least
\* one (node, existing node) pair matched; its severity is one of the
\* severities found and no severity found is higher in the order
\* low < medium < high; it is "low" when nothing was found.
C28_MaximumSeverity ==
    \A r \in RunIds :
        (runs[r].kind = "reason" /\ Len(runs[r].outputs) >= 3) =>
            LET nodes == runs[r].outputs[2].retrieved_nodes
                analysis == runs[r].outputs[3].contradiction_analysis[1]
                matched == \E i, j \in 1..Len(nodes) :
                              FixedPairIn(nodes[i].content, nodes[j].content)
            IN  /\ analysis.has_contradiction <=> matched
                /\ analysis.has_contradiction <=> (analysis.conflicting_nodes # <<>>)
                /\ ~matched => analysis.severity = "low"
                /\ matched =>
                      /\ analysis.severity \in SeveritiesFound(nodes)
                      /\ \A s \in SeveritiesFound(nodes) :
                            SeverityRank(s) <= SeverityRank(analysis.severity)

\* two nodes were retrieved of which one pair matched, and the report has the
\* severity of that contradiction
C28_Witness ==
    \E r \in RunIds :
        /\ runs[r].kind = "reason"
        /\ Len(runs[r].outputs) >= 3
        /\ Len(runs[r].outputs[2].retrieved_nodes) = 2
        /\ Len(runs[r].outputs[3].contradiction_analysis[1].conflicting_nodes) = 1
        /\ runs[r].outputs[3].contradiction_analysis[1].has_contradiction
        /\ runs[r].outputs[3].contradiction_analysis[1].severity = "high"

\* generate_reasoning is one of the first i steps run r invoked
GeneratedBy(r, i) ==
    \E k \in 1..i : runs[r].invoked[k] = "generate_reasoning"

\* C29: in the output of generate_reasoning and of every step after it,
\* reasoning_path is the ids of the first min(3, n) of the n retrieved nodes
\* in retrieval order, every id in it being the id of a retrieved node; the
\* envelope a run returns when no step raised carries the same path; and in
\* a run that did not invoke generate_reasoning, reasoning_path is empty in
\* every envelope.
C29_ReasoningPathIsPrefix ==
    \A r \in RunIds :
        (runs[r].kind = "reason" /\ Started(r)) =>
            /\ \A i \in 1..Len(runs[r].outputs) :
                  LET out == runs[r].outputs[i]
                      nodes == runs[r].outputs[2].retrieved_nodes
                  IN  IF GeneratedBy(r, i)
                      THEN /\ out.retrieved_nodes = nodes
                           /\ Len(out.reasoning_path) = Min(3, Len(nodes))
                           /\ \A k \in 1..Len(out.reasoning_path) :
                                 out.reasoning_path[k] = nodes[k].id
                           /\ SeqToSet(out.reasoning_path) \subseteq IdsOf(nodes)
                      ELSE out.reasoning_path = <<>>
            /\ (Returned(r) /\ runs[r].failure = <<>>) =>
                  runs[r].result[1].reasoning_path = Last(runs[r].outputs).reasoning_path
            /\ ~GeneratedBy(r, Len(runs[r].invoked)) =>
                  \A e \in AllEnvelopes(r) : e.reasoning_path = <<>>

\* four nodes were retrieved and the path is the ids of the first three
C29_Witness ==
    \E r \in RunIds :
        /\ runs[r].kind = "reason"
        /\ Len(runs[r].outputs) >= 4
        /\ Len(runs[r].outputs[2].retrieved_nodes) = 4
        /\ runs[r].outputs[2].retrieved_nodes[1].confidence
              < runs[r].outputs[2].retrieved_nodes[2].confidence
        /\ runs[r].outputs[4].reasoning_path =
              [k \in 1..3 |-> runs[r].outputs[2].retrieved_nodes[k].id]

\* the positions of the gaps of the given type
GapsOfType(gaps, type) == { i \in 1..Len(gaps) : gaps[i].type = type }

\* C30: once identify_gaps has returned, its gaps hold a terminology_gap
\* exactly when a query term stands in no retrieved content, and then one, of
\* severity medium, about the uncovered terms; a depth_gap exactly when a
\* retrieved node has fewer than 50 words, and then one, of severity low,
\* listing the ids of exactly these nodes; and no other gap.
C30_GapsReported ==
    \A r \in RunIds :
        (runs[r].kind = "reason" /\ Len(runs[r].outputs) >= 5) =>
            LET nodes == runs[r].outputs[5].retrieved_nodes
                gaps == runs[r].outputs[5].gap_analysis[1].gaps
                uncovered == Terms(runs[r].input) \ CoveredTerms(runs[r].input, nodes)
                short == { nodes[i].id : i \in { k \in 1..Len(nodes) :
                                                   Len(Split(nodes[k].content)) < 50 } }
            IN  /\ Cardinality(GapsOfType(gaps, "terminology_gap"))
                      = IF uncovered # {} THEN 1 ELSE 0
                /\ Cardinality(GapsOfType(gaps, "depth_gap"))
                      = IF short # {} THEN 1 ELSE 0
                /\ \A i \in 1..Len(gaps) :
                      \/ /\ gaps[i].type = "terminology_gap"
                         /\ gaps[i].severity = "medium"
                         /\ gaps[i].about = uncovered
                      \/ /\ gaps[i].type = "depth_gap"
                         /\ gaps[i].severity = "low"
                         /\ gaps[i].about = short

\* a node of 50 words and a node of 49 words were retrieved for a query with
\* uncovered terms: both gaps are reported, the depth_gap listing the node of
\* 49 words only
C30_Witness ==
    \E r \in RunIds :
        /\ runs[r].kind = "reason"
        /\ Len(runs[r].outputs) >= 5
        /\ IdsOf(runs[r].outputs[5].retrieved_nodes) = { <<SeedRun, 31>>, <<SeedRun, 32>> }
        /\ Len(runs[r].outputs[5].gap_analysis[1].gaps) = 2
        /\ runs[r].outputs[5].gap_analysis[1].gaps[2].type = "depth_gap"
        /\ runs[r].outputs[5].gap_analysis[1].gaps[2].about = { <<SeedRun, 31>> }

\* the text contains the phrase, letter case aside
Says(text, phrase) ==
    \E i \in 1..(Len(text) - Len(phrase) + 1) :
        Lower(SubSeq(text, i, i + Len(phrase) - 1)) = phrase

LowConfidence == <<"l", "o", "w", " ", "c", "o", "n", "f", "i", "d", "e", "n", "c", "e">>
HighConfidence == <<"h", "i", "g", "h", " ", "c", "o", "n", "f", "i", "d", "e", "n", "c", "e">>

\* the confidence, in tenths, the claim assigns to an answer text
ConfidenceOf(text) ==
    IF Says(text, LowConfidence) THEN 5
    ELSE IF Says(text, HighConfidence) THEN 9 ELSE 8

\* C31: the output of formulate_answer and of the step after it carry the
\* generated text as answer, with confidence 0.5 if the text says "low
\* confidence" (even if it says "high confidence" too), 0.9 if it says "high
\* confidence" only, 0.8 otherwise; before formulate_answer the answer is unset
\* and the confidence 0.0; and the envelope a reasoning run returns has a
\* confidence among 0.0, 0.5, 0.8, 0.9, which is 0.0 exactly when its answer
\* is unset.
C31_ConfidenceFromAnswer ==
    \A r \in RunIds :
        (runs[r].kind = "reason" /\ Started(r)) =>
            /\ \A i \in 1..Len(runs[r].outputs) :
                  LET out == runs[r].outputs[i]
                  IN  IF \E k \in 1..i : runs[r].invoked[k] = "formulate_answer"
                      THEN /\ out.answer # <<>>
                           /\ out.answer[1] \in AnswerTexts
                           /\ out.confidence = ConfidenceOf(out.answer[1])
                      ELSE out.answer = <<>> /\ out.confidence = 0
            /\ Returned(r) =>
                  /\ runs[r].result[1].confidence \in {0, 5, 8, 9}
                  /\ runs[r].result[1].confidence = 0 <=> runs[r].result[1].answer = <<>>
                  /\ runs[r].result[1].answer # <<>> =>
                        runs[r].result[1].confidence = ConfidenceOf(runs[r].result[1].answer[1])

\* a completed run whose answer says both "high confidence" and "low
\* confidence" returned confidence 0.5
C31_Witness ==
    \E r \in RunIds :
        /\ runs[r].kind = "reason"
        /\ Returned(r)
        /\ runs[r].result[1].status = "completed"
        /\ runs[r].result[1].answer # <<>>
        /\ Says(runs[r].result[1].answer[1], LowConfidence)
        /\ Says(runs[r].result[1].answer[1], HighConfidence)
        /\ runs[r].result[1].confidence = 5

\* the positions (i, j) of the pairs of a new node and a candidate whose
\* lowercased word sets have more than 0.7 of their union in common
AlignedPairs(nodes, candidates) ==
    { p \in (1..Len(nodes)) \X (1..Len(candidates)) :
        10 * Cardinality(Terms(nodes[p[1]].content) \cap Terms(candidates[p[2]].content))
          > 7 * Cardinality(Terms(nodes[p[1]].content) \cup Terms(candidates[p[2]].content)) }

\* the place of pair p among the pairs, new nodes first, candidates second
PlaceOf(p, pairs) ==
    1 + Cardinality({ q \in pairs : q[1] < p[1] \/ (q[1] = p[1] /\ q[2] < p[2]) })

C33_NeverReviewed ==
    \A r \in RunIds :
        (runs[r].kind = "ingest" /\ Started(r)) =>
            /\ \A i \in 1..Len(runs[r].outputs) :
                  LET out == runs[r].outputs[i]
                  IN  /\ out.alignment_result # <<>> =>
                            out.alignment_result[1].new_relationships = <<>>
                      /\ out.contradiction_result # <<>> =>
                            ~out.contradiction_result[1].has_contradiction
            /\ ~( /\ Returned(r)
                  /\ runs[r].failure = <<>>
                  /\ Last(runs[r].invoked) = "detect_contradictions" )
            /\ ( /\ Returned(r)
                 /\ PassesValidation(r)
                 /\ ~(runs[r].failure # <<>> /\ runs[r].failure[1].step = "process_content") )
               => \E k \in 1..Len(runs[r].invoked) : runs[r].invoked[k] = "store_embeddings"
            /\ Returned(r) => runs[r].result[1].edges_created = <<>>

\* step is one of the first i steps run r invoked, and returned
CompletedBy(r, step, i) ==
    \E k \in 1..Min(i, Len(runs[r].outputs)) : runs[r].invoked[k] = step

\* C34: the flags of the ingestion envelope track the work done. The initial
\* state has both flags false; the output of a step has embedding_generated
\* true exactly when process_content has completed by then, and graph_updated
\* true exactly when update_graph has; and so has the envelope returned.
C34_FlagsTrackWork ==
    \A r \in RunIds :
        (runs[r].kind = "ingest" /\ Started(r)) =>
            /\ \A i \in 1..Len(runs[r].outputs) :
                  /\ runs[r].outputs[i].embedding_generated
                        <=> CompletedBy(r, "process_content", i)
                  /\ runs[r].outputs[i].graph_updated
                        <=> CompletedBy(r, "update_graph", i)
            /\ runs[r].inputs # <<>> =>
                  /\ ~runs[r].inputs[1].embedding_generated
                  /\ ~runs[r].inputs[1].graph_updated
            /\ Returned(r) =>
                  /\ runs[r].result[1].embedding_generated
                        <=> CompletedBy(r, "process_content", Len(runs[r].invoked))
                  /\ runs[r].result[1].graph_updated
                        <=> CompletedBy(r, "update_graph", Len(runs[r].invoked))

\* C35: ingest, then retrieve. A node the vector-store search returned to a
\* reasoning run, and which store_embeddings of an ingestion run wrote, stands
\* in retrieved_nodes with its id and with the text of the chunk it was made
\* from as its content.
C35_RetrievedContentIsChunk ==
    \A q \in RunIds :
        (runs[q].kind = "reason" /\ Len(runs[q].outputs) >= 2) =>
            \A h \in 1..Len(runs[q].outputs[2].vector_results[1]) :
                LET hit == runs[q].outputs[2].vector_results[1][h]
                IN  hit.id \in DOMAIN vector_store =>
                        \E i \in 1..Len(runs[q].outputs[2].retrieved_nodes) :
                            LET node == runs[q].outputs[2].retrieved_nodes[i]
                            IN  /\ node.id = hit.id
                                /\ \E r \in { x \in RunIds : runs[x].kind = "ingest" } :
                                    \E k \in 1..Len(TuplesOf(r)) :
                                      /\ TuplesOf(r)[k][1] = node.id
                                      /\ node.content = TuplesOf(r)[k][3].content

\* C36: a reasoning run only reads the stores. Every step that starts or
\* advances a reasoning run, whichever branch it takes and whether it returns
\* or raises, leaves the vector store and the graph store as they were.
C36_ReasoningOnlyReads ==
    [][\A r \in RunIds :
          (runs'[r].kind = "reason" /\ runs'[r] # runs[r]) =>
              /\ vector_store' = vector_store
              /\ graph_store' = graph_store]_vars

\* a reasoning run has returned with a node it retrieved from the vector
\* store, which holds what the ingestion run stored
C36_Witness ==
    \E q \in RunIds :
        /\ runs[q].kind = "reason"
        /\ Returned(q)
        /\ runs[q].result[1].retrieved_nodes # <<>>
        /\ runs[q].result[1].retrieved_nodes[1].id \in DOMAIN vector_store
        /\ \E r \in RunIds :
              /\ runs[r].kind = "ingest"
              /\ runs[r].upserted = Cardinality(DOMAIN vector_store)
              /\ runs[r].upserted > 0

\* C37: the confidence validate_content returns is 1.0, 0.8 or 0.6, for 0, 1
\* or 2 issues; the floor of 0.1 is never returned; and the confidence is 1.0
\* exactly when is_valid is true.
C37_ConfidenceValues ==
    \A r \in RunIds :
        (runs[r].kind = "ingest" /\ runs[r].outputs # <<>>) =>
            LET v == runs[r].outputs[1].validation_result[1]
            IN  /\ v.confidence \in {10, 8, 6}
                /\ v.confidence # 1
                /\ Len(v.issues) \in 0..2
                /\ (v.confidence = 10) <=> (Len(v.issues) = 0)
                /\ (v.confidence = 8) <=> (Len(v.issues) = 1)
                /\ (v.confidence = 6) <=> (Len(v.issues) = 2)
                /\ (v.confidence = 10) <=> v.is_valid

\* a content of a single word of three characters has both issues and
\* confidence 0.6
C37_Witness ==
    \E r \in RunIds :
        /\ runs[r].kind = "ingest"
        /\ runs[r].outputs # <<>>
        /\ Len(Split(runs[r].input)) = 1
        /\ Len(runs[r].outputs[1].validation_result[1].issues) = 2
        /\ runs[r].outputs[1].validation_result[1].confidence = 6
        /\ ~runs[r].outputs[1].validation_result[1].is_valid

====
